---- MODULE Spec2Model ----
(***************************************************************************)
(* Model of the llmapi crate of ai-image-gen: the canonical message model, *)
(* the three provider adapters (OpenAI, Anthropic, Gemini), the dispatcher *)
(* and the chat / embedding wrappers.                                      *)
(*                                                                         *)
(* Strings are sequences of one-character strings, so that trimming, case  *)
(* folding, joining and searching are computed as the code computes them.  *)
(* Diagnostic texts produced by format! are sequences of chunks.           *)
(* Option<T> is a sequence of length 0 (None) or 1 (Some).                 *)
(* A JSON value that can be a string or an array carries a tag.            *)
(***************************************************************************)
EXTENDS Integers, Sequences, FiniteSets, TLC

VARIABLES
    pc,      \* position of the caller / worker in the operation in progress
    call,    \* the operation in progress or last completed, with its input
    net,     \* the outbound HTTP requests issued by that operation, in order
    resp,    \* the provider's answer to the last request (NoResp before it)
    worker,  \* the embedding worker thread: its state and its result
    ret,     \* the value the last completed operation returned
    now,     \* the last value read from the epoch-millisecond clock
    disk,    \* the application's data files: prompts.json and log.json
    appended \* the log entries whose append has succeeded so far, in order

vars == <<pc, call, net, resp, worker, ret, now, disk, appended>>

---------------------------------------------------------------------------
(* Bounds of the model *)

MaxClock == 2
MaxCallMsgs == 1
MaxTexts == 2
MaxMsgs == 3
MaxParts == 2
MaxTotalParts == 3
MaxSecs == 1
MaxTemplates == 3
MaxAppends == 52

---------------------------------------------------------------------------
(* Strings *)

None == <<>>
Some(x) == <<x>>

NL == "\n"

RECURSIVE Join(_, _)
\* Vec<String>::join(sep)
Join(segs, sep) ==
    IF segs = <<>> THEN <<>>
    ELSE IF Len(segs) = 1 THEN segs[1]
    ELSE segs[1] \o sep \o Join(Tail(segs), sep)

RECURSIVE Concat(_)
\* String::push_str over a list of strings
Concat(segs) ==
    IF segs = <<>> THEN <<>> ELSE segs[1] \o Concat(Tail(segs))

IsWhitespace(c) == c \in {" ", "\t", NL}

RECURSIVE TrimStart(_)
TrimStart(s) ==
    IF s # <<>> /\ IsWhitespace(s[1]) THEN TrimStart(Tail(s)) ELSE s

RECURSIVE TrimEnd(_)
TrimEnd(s) ==
    IF s # <<>> /\ IsWhitespace(s[Len(s)])
    THEN TrimEnd(SubSeq(s, 1, Len(s) - 1))
    ELSE s

\* str::trim
Trim(s) == TrimEnd(TrimStart(s))

UpperToLower ==
    ( "A" :> "a" @@ "D" :> "d" @@ "E" :> "e" @@ "H" :> "h" @@ "I" :> "i"
   @@ "L" :> "l" @@ "M" :> "m" @@ "N" :> "n" @@ "O" :> "o" @@ "R" :> "r"
   @@ "S" :> "s" @@ "T" :> "t" @@ "U" :> "u" @@ "Y" :> "y" @@ "B" :> "b" )

LowerChar(c) == IF c \in DOMAIN UpperToLower THEN UpperToLower[c] ELSE c

\* str::to_lowercase
to_lowercase(s) == [i \in 1..Len(s) |-> LowerChar(s[i])]

\* the inverse table, used only to enumerate differently cased inputs
UpperChar(c) ==
    IF \E u \in DOMAIN UpperToLower : UpperToLower[u] = c
    THEN CHOOSE u \in DOMAIN UpperToLower : UpperToLower[u] = c
    ELSE c

RECURSIVE ToDecimal(_)
\* u64::to_string
ToDecimal(n) ==
    LET digit == <<"0", "1", "2", "3", "4", "5", "6", "7", "8", "9">>
    IN IF n < 10 THEN <<digit[n + 1]>>
       ELSE ToDecimal(n \div 10) \o <<digit[(n % 10) + 1]>>

---------------------------------------------------------------------------
(* types.rs: LLMMessageType, LLMUserType, LLMMessage *)

TEXT(t) == [kind |-> "TEXT", text |-> t]
IMAGE(d, p) == [kind |-> "IMAGE", data_b64 |-> d, file_path |-> p]

\* LLMMessageType::text / image_b64
text(t) == TEXT(t)
image_b64(d) == IMAGE(d, None)

str_user == <<"u", "s", "e", "r">>
str_human == <<"h", "u", "m", "a", "n">>
str_model == <<"m", "o", "d", "e", "l">>
str_ai == <<"a", "i">>
str_assistant == <<"a", "s", "s", "i", "s", "t", "a", "n", "t">>
str_system == <<"s", "y", "s", "t", "e", "m">>

\* the role literals the adapters pass to LLMMessage::new
str_System == <<"S", "y", "s", "t", "e", "m">>
str_AI == <<"A", "I">>

from_str_nofold(role_str) ==
    LET k == Trim(role_str)
    IN IF k \in {str_user, str_human} THEN Some("Human")
       ELSE IF k \in {str_model, str_ai, str_assistant} THEN Some("AI")
       ELSE IF k = str_system THEN Some("System")
       ELSE None

from_str_notrim(role_str) ==
    LET k == to_lowercase(role_str)
    IN IF k \in {str_user, str_human} THEN Some("Human")
       ELSE IF k \in {str_model, str_ai, str_assistant} THEN Some("AI")
       ELSE IF k = str_system THEN Some("System")
       ELSE None

\* LLMUserType::from_str
from_str(role_str) ==
    LET k == to_lowercase(Trim(role_str))
    IN IF k \in {str_user, str_human} THEN Some("Human")
       ELSE IF k \in {str_model, str_ai, str_assistant} THEN Some("AI")
       ELSE IF k = str_system THEN Some("System")
       ELSE None

\* Option::unwrap_or
unwrap_or(opt, dflt) == IF opt = None THEN dflt ELSE opt[1]

\* utils::current_timestamp_millis: what a read of the clock can return
\* after a read that returned `last`.  SystemTime::now() is the wall clock,
\* which is not monotonic: a read may return less than an earlier one.
current_timestamp_millis(last) == 0..MaxClock

\* LLMMessage::new, given the two values t1, t2 its two clock reads returned
LLMMessage_new(id, role, content, t1, t2) ==
    [ id |-> IF id = None THEN ToDecimal(t1) ELSE id[1],
      role |-> unwrap_or(from_str(role), "Human"),
      content |-> content,
      created_at |-> t2 ]

---------------------------------------------------------------------------
(* utils.rs: detect_mime_type *)

image_png == <<"i", "m", "a", "g", "e", "/", "p", "n", "g">>
image_jpeg == <<"i", "m", "a", "g", "e", "/", "j", "p", "e", "g">>

RECURSIVE LastIndexOf(_, _)
\* index of the last occurrence of c in s, 0 when there is none
LastIndexOf(s, c) ==
    IF s = <<>> THEN 0
    ELSE IF s[Len(s)] = c THEN Len(s)
    ELSE LastIndexOf(SubSeq(s, 1, Len(s) - 1), c)

\* Path::extension: what follows the last dot of a name that does not
\* begin with it
extension(path) ==
    LET d == LastIndexOf(path, ".")
    IN IF d <= 1 THEN None ELSE Some(SubSeq(path, d + 1, Len(path)))

\* mime_guess::from_path(path).first_raw().unwrap_or("image/jpeg")
detect_mime_type(path) ==
    LET ext == extension(path)
    IN IF ext = Some(<<"p", "n", "g">>) THEN image_png
       ELSE IF ext = Some(<<"j", "p", "g">>) THEN image_jpeg
       ELSE image_jpeg

---------------------------------------------------------------------------
(* JSON values whose shape varies *)

JStr(s) == [j |-> "string", s |-> s]
JArr(a) == [j |-> "array", a |-> a]

\* the Text strings of a content list, in order
text_segments(content) ==
    LET texts == SelectSeq(content, LAMBDA p : p.kind = "TEXT")
    IN [i \in 1..Len(texts) |-> texts[i].text]

---------------------------------------------------------------------------
(* providers/openai/api.rs: request construction *)

str_data == <<"d", "a", "t", "a", ":">>
str_base64 == <<";", "b", "a", "s", "e", "6", "4", ",">>

openai_role(role) ==
    CASE role = "Human" -> "user"
      [] role = "AI" -> "assistant"
      [] role = "System" -> "system"

\* the content item convert_message pushes for one part
openai_content_item(part) ==
    IF part.kind = "TEXT"
    THEN [type |-> "text", text |-> part.text]
    ELSE LET mime == IF part.file_path = None THEN image_png
                     ELSE detect_mime_type(part.file_path[1])
             data_url == str_data \o mime \o str_base64 \o part.data_b64
         IN [type |-> "input_image", image_url |-> [url |-> data_url]]

convert_message_nosep(message) ==
    LET content_items ==
            [i \in 1..Len(message.content) |-> openai_content_item(message.content[i])]
        only_text == \A i \in 1..Len(message.content) : message.content[i].kind = "TEXT"
    IN IF content_items = <<>>
       THEN [role |-> openai_role(message.role), content |-> JStr(<<>>)]
       ELSE IF only_text
       THEN [role |-> openai_role(message.role),
             content |-> JStr(Concat(text_segments(message.content)))]
       ELSE [role |-> openai_role(message.role), content |-> JArr(content_items)]

\* convert_message
convert_message(message) ==
    LET content_items ==
            [i \in 1..Len(message.content) |-> openai_content_item(message.content[i])]
        only_text == \A i \in 1..Len(message.content) : message.content[i].kind = "TEXT"
    IN IF content_items = <<>>
       THEN [role |-> openai_role(message.role), content |-> JStr(<<>>)]
       ELSE IF only_text
       THEN [role |-> openai_role(message.role),
             content |-> JStr(Join(text_segments(message.content), <<NL>>))]
       ELSE [role |-> openai_role(message.role), content |-> JArr(content_items)]

\* convert_messages_to_openai
convert_messages_to_openai(messages) ==
    [i \in 1..Len(messages) |-> convert_message(messages[i])]

---------------------------------------------------------------------------
(* providers/openai/api.rs: response parsing *)

\* serde: one element of a JSON content array as a ChatContentPart
ChatContentPart(j) ==
    [ kind |-> j.type,
      text |-> IF "text" \in DOMAIN j THEN Some(j.text) ELSE None,
      image_url |-> IF "image_url" \in DOMAIN j THEN Some(j.image_url) ELSE None,
      image_base64 |-> IF "image_base64" \in DOMAIN j THEN Some(j.image_base64) ELSE None ]

RECURSIVE find(_, _)
\* str::find(char): index of the first occurrence, 0 when there is none
find(s, c) ==
    IF s = <<>> THEN 0
    ELSE IF s[1] = c THEN 1
    ELSE LET r == find(Tail(s), c) IN IF r = 0 THEN 0 ELSE r + 1

extract_data_url_base64_rfind(url) ==
    LET comma_idx == LastIndexOf(url, ",")
    IN IF comma_idx = 0 THEN None
       ELSE Some(SubSeq(url, comma_idx + 1, Len(url)))

\* extract_data_url_base64
extract_data_url_base64(url) ==
    LET comma_idx == find(url, ",")
    IN IF comma_idx = 0 THEN None
       ELSE Some(SubSeq(url, comma_idx + 1, Len(url)))

str_unsupported_openai == "Unsupported OpenAI content type: "

\* convert_openai_parts with the arm of the other tags always pushing the
\* diagnostic
convert_openai_part_diagnostic_only(part) ==
    IF part.kind \in {"text", "output_text"}
    THEN IF part.text # None THEN <<text(part.text[1])>> ELSE <<>>
    ELSE IF part.kind \in {"output_image", "input_image"}
    THEN IF part.image_base64 # None THEN <<image_b64(part.image_base64[1])>>
         ELSE IF part.image_url # None
         THEN LET data_b64 == extract_data_url_base64(part.image_url[1].url)
              IN IF data_b64 # None THEN <<image_b64(data_b64[1])>>
                 ELSE <<text(part.image_url[1].url)>>
         ELSE <<>>
    ELSE <<text(<<str_unsupported_openai, part.kind>>)>>

\* the parts convert_openai_parts pushes for one ChatContentPart
convert_openai_part(part) ==
    IF part.kind \in {"text", "output_text"}
    THEN IF part.text # None THEN <<text(part.text[1])>> ELSE <<>>
    ELSE IF part.kind \in {"output_image", "input_image"}
    THEN IF part.image_base64 # None THEN <<image_b64(part.image_base64[1])>>
         ELSE IF part.image_url # None
         THEN LET data_b64 == extract_data_url_base64(part.image_url[1].url)
              IN IF data_b64 # None THEN <<image_b64(data_b64[1])>>
                 ELSE <<text(part.image_url[1].url)>>
         ELSE <<>>
    ELSE IF part.text # None THEN <<text(part.text[1])>>
    ELSE IF part.image_base64 # None THEN <<text(part.image_base64[1])>>
    ELSE <<text(<<str_unsupported_openai, part.kind>>)>>

RECURSIVE convert_openai_parts(_)
\* convert_openai_parts
convert_openai_parts(parts) ==
    IF parts = <<>> THEN <<>>
    ELSE convert_openai_part(parts[1]) \o convert_openai_parts(Tail(parts))

---------------------------------------------------------------------------
(* providers/anthropic/api.rs: request construction *)

ANTHROPIC_MAX_TOKENS == 1024
OPENAI_MAX_TOKENS == 1024

\* extract_text_from_message_content taking the data of Image parts as text
extract_text_with_images(content) ==
    Join([i \in 1..Len(content) |->
             IF content[i].kind = "TEXT" THEN content[i].text
             ELSE content[i].data_b64], <<NL>>)

\* extract_text_from_message_content
extract_text_from_message_content(content) ==
    Join(text_segments(content), <<NL>>)

\* the part convert_message_content_to_anthropic pushes for one item
anthropic_content_item(item) ==
    IF item.kind = "TEXT"
    THEN [type |-> "text", text |-> item.text]
    ELSE LET mime == IF item.file_path = None THEN image_png
                     ELSE detect_mime_type(item.file_path[1])
         IN [type |-> "image",
             source |-> [type |-> "base64", media_type |-> mime, data |-> item.data_b64]]

\* convert_message_content_to_anthropic
convert_message_content_to_anthropic(content) ==
    LET parts == [i \in 1..Len(content) |-> anthropic_content_item(content[i])]
    IN IF parts = <<>> THEN <<[type |-> "text", text |-> <<>>]>> ELSE parts

anthropic_role(role) ==
    CASE role = "Human" -> "user"
      [] role = "AI" -> "assistant"

RECURSIVE anthropic_converted(_)
\* the `converted` vector convert_messages_to_anthropic builds
anthropic_converted(messages) ==
    IF messages = <<>> THEN <<>>
    ELSE LET message == messages[1]
         IN (IF message.role = "System" THEN <<>>
             ELSE <<[role |-> anthropic_role(message.role),
                     content |-> convert_message_content_to_anthropic(message.content)]>>)
            \o anthropic_converted(Tail(messages))

RECURSIVE system_segments_all(_)
system_segments_all(messages) ==
    IF messages = <<>> THEN <<>>
    ELSE LET message == messages[1]
         IN (IF message.role = "System"
             THEN <<extract_text_from_message_content(message.content)>>
             ELSE <<>>)
            \o system_segments_all(Tail(messages))

RECURSIVE system_segments(_)
\* the `system_segments` vector convert_messages_to_anthropic builds
system_segments(messages) ==
    IF messages = <<>> THEN <<>>
    ELSE LET message == messages[1]
             txt == extract_text_from_message_content(message.content)
         IN (IF message.role = "System" /\ txt # <<>> THEN <<txt>> ELSE <<>>)
            \o system_segments(Tail(messages))

\* convert_messages_to_anthropic: (converted, system_prompt)
convert_messages_to_anthropic(messages) ==
    LET segs == system_segments(messages)
    IN [ converted |-> anthropic_converted(messages),
         system_prompt |-> IF segs = <<>> THEN None ELSE Some(Join(segs, <<NL>>)) ]

\* the JSON payload send_message posts; system = None is an absent field
anthropic_payload(client, messages) ==
    LET c == convert_messages_to_anthropic(messages)
    IN [ model |-> client.default_model,
         messages |-> c.converted,
         max_tokens |-> ANTHROPIC_MAX_TOKENS,
         system |-> c.system_prompt ]

\* the JSON payload send_chat_completion posts
openai_payload(client, messages) ==
    [ model |-> client.default_model,
      messages |-> convert_messages_to_openai(messages),
      max_tokens |-> OPENAI_MAX_TOKENS ]

---------------------------------------------------------------------------
(* providers/gemini/api.rs: request construction *)

\* the JSON part convert_body_parts_gemini maps one part to
gemini_part(part) ==
    IF part.kind = "TEXT"
    THEN [text |-> part.text]
    ELSE LET mime == IF part.file_path = None THEN image_jpeg
                     ELSE detect_mime_type(part.file_path[1])
         IN [inlineData |-> [mimeType |-> mime, data |-> part.data_b64]]

\* convert_body_parts_gemini
convert_body_parts_gemini(body_part) ==
    [i \in 1..Len(body_part) |-> gemini_part(body_part[i])]

role_to_str_system_as_user(role) ==
    CASE role = "Human" -> "user"
      [] role = "AI" -> "model"
      [] role = "System" -> "user"

\* role_to_str
role_to_str(role) ==
    CASE role = "Human" -> "user"
      [] role = "AI" -> "model"
      [] role = "System" -> "system"

\* convert_messages_to_gemini_contents
convert_messages_to_gemini_contents(messages) ==
    [i \in 1..Len(messages) |->
        [role |-> role_to_str(messages[i].role),
         parts |-> convert_body_parts_gemini(messages[i].content)]]

\* the JSON body send_generate_request posts
gemini_payload(client, messages) ==
    [ contents |-> convert_messages_to_gemini_contents(messages) ]

---------------------------------------------------------------------------
(* types.rs: LLMClient, and the URLs the adapters build from it *)

str_slash == "/"
str_models_prefix == <<"m", "o", "d", "e", "l", "s", "/">>

Providers == {"OpenAI", "Anthropic", "Gemini"}

\* LLMClient::new
LLMClient(provider, endpoint, default_model, llm_type) ==
    [ provider |-> provider, endpoint |-> endpoint,
      default_model |-> default_model, llm_type |-> llm_type ]

RECURSIVE trim_end_matches(_, _)
\* str::trim_end_matches(char)
trim_end_matches(s, c) ==
    IF s # <<>> /\ s[Len(s)] = c
    THEN trim_end_matches(SubSeq(s, 1, Len(s) - 1), c)
    ELSE s

\* str::starts_with
starts_with(s, prefix) ==
    Len(s) >= Len(prefix) /\ SubSeq(s, 1, Len(prefix)) = prefix

RECURSIVE trim_start_matches(_, _)
\* str::trim_start_matches(&str)
trim_start_matches(s, prefix) ==
    IF prefix # <<>> /\ starts_with(s, prefix)
    THEN trim_start_matches(SubSeq(s, Len(prefix) + 1, Len(s)), prefix)
    ELSE s

\* an outbound POST: the URL, as the chunks format! concatenates, and the body
Request(url, body) == [url |-> url, body |-> body]

\* send_chat_completion: the request it posts
openai_chat_request(client, messages) ==
    Request(trim_end_matches(client.endpoint, str_slash) \o <<"/chat/completions">>,
            openai_payload(client, messages))

\* send_message: the request it posts
anthropic_chat_request(client, messages) ==
    Request(trim_end_matches(client.endpoint, str_slash) \o <<"/messages">>,
            anthropic_payload(client, messages))

\* send_generate_request: the request it posts
gemini_chat_request(client, messages) ==
    Request(trim_end_matches(client.endpoint, str_slash) \o <<str_slash>>
                \o client.default_model \o <<":generateContent">>,
            gemini_payload(client, messages))

---------------------------------------------------------------------------
(* What a request can come back with.                                      *)
(*   fault = "transport": send() failed                                    *)
(*   fault = "status":    a non-2xx status                                 *)
(*   fault = "body":      reading the body failed                          *)
(*   fault = "decode":    a 2xx body serde cannot decode (raw: its text)   *)
(*   fault = "none":      a 2xx body decoded into data                     *)

NoResp == [fault |-> "pending"]
Fault(kind) == [fault |-> kind]
Undecodable(raw) == [fault |-> "decode", raw |-> raw]
Decoded(data) == [fault |-> "none", data |-> data]

Ok(v) == [ok |-> TRUE, v |-> v]
Err(e) == [ok |-> FALSE, err |-> e]

---------------------------------------------------------------------------
(* providers/openai/api.rs: chat *)

ChatText(t) == [c |-> "Text", text |-> t]
ChatParts(parts) == [c |-> "Parts", parts |-> parts]

\* serde, #[serde(untagged)]: a JSON content value as a ChatContent
ChatContent(j) ==
    IF j.j = "string" THEN ChatText(j.s)
    ELSE ChatParts([i \in 1..Len(j.a) |-> ChatContentPart(j.a[i])])

\* convert_openai_response: the match on the first choice's content
openai_contents(content) ==
    IF content = None THEN <<>>
    ELSE IF content[1].c = "Text" THEN <<text(content[1].text)>>
    ELSE convert_openai_parts(content[1].parts)

convert_openai_response_last(response, t1, t2) ==
    IF response.choices = <<>>
    THEN Err(<<"No choices returned from OpenAI">>)
    ELSE LET first_choice == response.choices[Len(response.choices)]
             role == unwrap_or(first_choice.message.role, str_assistant)
             contents == openai_contents(first_choice.message.content)
         IN Ok(LLMMessage_new(response.id, role,
                              IF contents = <<>> THEN <<text(<<>>)>> ELSE contents,
                              t1, t2))

\* convert_openai_response, given the values the two clock reads returned
convert_openai_response(response, t1, t2) ==
    IF response.choices = <<>>
    THEN Err(<<"No choices returned from OpenAI">>)
    ELSE LET first_choice == response.choices[1]
             role == unwrap_or(first_choice.message.role, str_assistant)
             contents == openai_contents(first_choice.message.content)
         IN Ok(LLMMessage_new(response.id, role,
                              IF contents = <<>> THEN <<text(<<>>)>> ELSE contents,
                              t1, t2))

\* send_chat_completion, from the answer to its request on
send_chat_completion(r, t1, t2) ==
    CASE r.fault = "transport" -> Err(<<"OpenAI request failed">>)
      [] r.fault = "status" -> Err(<<"OpenAI returned non-success status">>)
      [] r.fault = "body" -> Err(<<"Failed to read OpenAI response body">>)
      [] r.fault = "decode" -> Err(<<"Failed to decode OpenAI response JSON: ", r.raw>>)
      [] r.fault = "none" -> convert_openai_response(r.data, t1, t2)

\* openai::chat: the message the closure resolves to
openai_chat(r, t1, t2) ==
    LET res == send_chat_completion(r, t1, t2)
    IN IF res.ok THEN res.v
       ELSE LLMMessage_new(None, str_System,
                           <<text(<<"OpenAI error: ">> \o res.err)>>, t1, t2)

---------------------------------------------------------------------------
(* providers/anthropic/api.rs: chat *)

str_unsupported_anthropic == "Unsupported Anthropic content type: "

\* convert_anthropic_parts with the arm of the other tags pushing nothing
convert_anthropic_part_known_only(part) ==
    IF part.kind = "text"
    THEN IF part.text # None THEN <<text(part.text[1])>> ELSE <<>>
    ELSE IF part.kind = "image"
    THEN IF part.source # None /\ part.source[1].data # None
         THEN <<image_b64(part.source[1].data[1])>>
         ELSE <<>>
    ELSE <<>>

\* the parts convert_anthropic_parts pushes for one AnthropicContent
convert_anthropic_part(part) ==
    IF part.kind = "text"
    THEN IF part.text # None THEN <<text(part.text[1])>> ELSE <<>>
    ELSE IF part.kind = "image"
    THEN IF part.source # None /\ part.source[1].data # None
         THEN <<image_b64(part.source[1].data[1])>>
         ELSE <<>>
    ELSE IF part.extra # None THEN <<text(part.extra[1])>>
    ELSE <<text(<<str_unsupported_anthropic, part.kind>>)>>

RECURSIVE convert_anthropic_parts(_)
\* convert_anthropic_parts
convert_anthropic_parts(parts) ==
    IF parts = <<>> THEN <<>>
    ELSE convert_anthropic_part(parts[1]) \o convert_anthropic_parts(Tail(parts))

\* convert_anthropic_response without the replacement of an empty result
convert_anthropic_response_no_fill(response, t1, t2) ==
    LET role == unwrap_or(response.role, str_assistant)
        contents == convert_anthropic_parts(response.content)
    IN Ok(LLMMessage_new(response.id, role, contents, t1, t2))

\* convert_anthropic_response
convert_anthropic_response(response, t1, t2) ==
    LET role == unwrap_or(response.role, str_assistant)
        contents == convert_anthropic_parts(response.content)
    IN Ok(LLMMessage_new(response.id, role,
                         IF contents = <<>> THEN <<text(<<>>)>> ELSE contents,
                         t1, t2))

\* send_message, from the answer to its request on
send_message(r, t1, t2) ==
    CASE r.fault = "transport" -> Err(<<"Anthropic request failed">>)
      [] r.fault = "status" -> Err(<<"Anthropic returned non-success status">>)
      [] r.fault = "body" -> Err(<<"Failed to read Anthropic response body">>)
      [] r.fault = "decode" -> Err(<<"Failed to decode Anthropic response JSON: ", r.raw>>)
      [] r.fault = "none" -> convert_anthropic_response(r.data, t1, t2)

\* anthropic::chat: the message the closure resolves to
anthropic_chat(r, t1, t2) ==
    LET res == send_message(r, t1, t2)
    IN IF res.ok THEN res.v
       ELSE LLMMessage_new(None, str_System,
                           <<text(<<"Anthropic error: ">> \o res.err)>>, t1, t2)

---------------------------------------------------------------------------
(* providers/gemini: chat *)

RECURSIVE candidate_images(_)
\* the inline data of one candidate's parts, empty strings filtered out
candidate_images(parts) ==
    IF parts = <<>> THEN <<>>
    ELSE (IF parts[1].inline_data # None /\ parts[1].inline_data[1].data # <<>>
          THEN <<parts[1].inline_data[1].data>> ELSE <<>>)
         \o candidate_images(Tail(parts))

RECURSIVE response_to_base64_images_of(_)
response_to_base64_images_of(candidates) ==
    IF candidates = <<>> THEN <<>>
    ELSE candidate_images(candidates[1].content.parts)
         \o response_to_base64_images_of(Tail(candidates))

\* response_to_base64_images
response_to_base64_images(response) ==
    response_to_base64_images_of(response.candidates)

RECURSIVE parts_text(_)
parts_text(parts) ==
    IF parts = <<>> THEN <<>>
    ELSE (IF parts[1].text # None THEN parts[1].text[1] ELSE <<>>)
         \o parts_text(Tail(parts))

\* response_to_text_data
response_to_text_data(response) ==
    IF response.candidates # <<>>
    THEN Ok(parts_text(response.candidates[1].content.parts))
    ELSE Err(<<"No candidates found">>)

\* send_generate_request, from the answer to its request on
send_generate_request(r) ==
    CASE r.fault = "transport" -> Err(<<"HTTP request failed">>)
      [] r.fault = "status" -> Err(<<"Non-success status returned">>)
      [] r.fault = "body" -> Err(<<"Reading response body failed">>)
      [] r.fault = "decode" ->
            Err(<<"Failed to decode Gemini response JSON. Raw response: ", r.raw>>)
      [] r.fault = "none" -> Ok(r.data)

\* gemini::chat: the message the closure resolves to
gemini_chat(r, t1, t2) ==
    LET res == send_generate_request(r)
    IN IF res.ok
       THEN LET images == response_to_base64_images(res.v)
                txt == response_to_text_data(res.v)
                data_response ==
                    [i \in 1..Len(images) |-> image_b64(images[i])]
                    \o <<text(IF txt.ok THEN txt.v ELSE <<>>)>>
            IN LLMMessage_new(res.v.response_id, str_AI, data_response, t1, t2)
       ELSE LLMMessage_new(None, str_System,
                           <<text(<<"Failed to get response from Gemini">>)>>, t1, t2)

---------------------------------------------------------------------------
(* providers/mod.rs: get_llm_chat *)

\* the request the chat function of the client's provider posts
chat_request(client, messages) ==
    CASE client.provider = "OpenAI" -> openai_chat_request(client, messages)
      [] client.provider = "Anthropic" -> anthropic_chat_request(client, messages)
      [] client.provider = "Gemini" -> gemini_chat_request(client, messages)

\* the message the chat function of the client's provider resolves to
get_llm_chat(client, r, t1, t2) ==
    CASE client.provider = "OpenAI" -> openai_chat(r, t1, t2)
      [] client.provider = "Anthropic" -> anthropic_chat(r, t1, t2)
      [] client.provider = "Gemini" -> gemini_chat(r, t1, t2)

---------------------------------------------------------------------------
(* providers/openai: embeddings *)

\* openai_embed_texts: the request it posts
openai_embed_request(client, inputs) ==
    Request(trim_end_matches(client.endpoint, str_slash) \o <<"/embeddings">>,
            [model |-> client.default_model, input |-> inputs])

openai_embed_texts_reversed(r) ==
    CASE r.fault = "transport" -> Err(<<"OpenAI embeddings request failed">>)
      [] r.fault = "body" -> Err(<<"Failed to read OpenAI embeddings response body">>)
      [] r.fault = "status" -> Err(<<"OpenAI embeddings failed: status ">>)
      [] r.fault = "decode" -> Err(<<"Failed to decode OpenAI embeddings JSON: ", r.raw>>)
      [] r.fault = "none" ->
            Ok([i \in 1..Len(r.data.data) |->
                    r.data.data[Len(r.data.data) + 1 - i].embedding])

\* openai_embed_texts, from the answer to its request on
openai_embed_texts(r) ==
    CASE r.fault = "transport" -> Err(<<"OpenAI embeddings request failed">>)
      [] r.fault = "body" -> Err(<<"Failed to read OpenAI embeddings response body">>)
      [] r.fault = "status" -> Err(<<"OpenAI embeddings failed: status ">>)
      [] r.fault = "decode" -> Err(<<"Failed to decode OpenAI embeddings JSON: ", r.raw>>)
      [] r.fault = "none" ->
            Ok([i \in 1..Len(r.data.data) |-> r.data.data[i].embedding])

---------------------------------------------------------------------------
(* providers/gemini: embeddings *)

\* build_embed_content
build_embed_content(t, model) ==
    [model |-> model, content |-> [parts |-> <<[text |-> t]>>]]

\* build_batch_embed_contents
build_batch_embed_contents(texts, model) ==
    [requests |-> [i \in 1..Len(texts) |->
        [model |-> model, content |-> [parts |-> <<[text |-> texts[i]]>>]]]]

\* request_model with the prefix put in front of every id
request_model_always_prefix(model_id) == str_models_prefix \o model_id

\* gemini_embed_texts: request_model
request_model(model_id) ==
    IF starts_with(model_id, str_models_prefix) THEN model_id
    ELSE str_models_prefix \o model_id

gemini_embed_request_batch_only(client, texts) ==
    LET endpoint == trim_end_matches(client.endpoint, str_slash)
        path_model == trim_start_matches(client.default_model, str_models_prefix)
    IN Request(endpoint \o <<str_slash>> \o path_model \o <<":batchEmbedContents">>,
               build_batch_embed_contents(texts, request_model(client.default_model)))

\* gemini_embed_texts: the request it posts
gemini_embed_request(client, texts) ==
    LET endpoint == trim_end_matches(client.endpoint, str_slash)
        path_model == trim_start_matches(client.default_model, str_models_prefix)
    IN IF Len(texts) = 1
       THEN Request(endpoint \o <<str_slash>> \o path_model \o <<":embedContent">>,
                    build_embed_content(texts[1], request_model(client.default_model)))
       ELSE Request(endpoint \o <<str_slash>> \o path_model \o <<":batchEmbedContents">>,
                    build_batch_embed_contents(texts, request_model(client.default_model)))

gemini_embed_texts_usage_ok(texts, r) ==
    IF r.fault # "none"
    THEN Err(<<"Gemini embedding request failed">>)
    ELSE IF Len(texts) = 1
    THEN Ok(IF r.data.embedding = None THEN <<>> ELSE <<r.data.embedding[1].values>>)
    ELSE Ok(IF r.data.embeddings = None THEN <<>>
            ELSE [i \in 1..Len(r.data.embeddings[1]) |-> r.data.embeddings[1][i].values])

\* gemini_embed_texts, from the answer to its request on
gemini_embed_texts(texts, r) ==
    IF Len(texts) = 1
    THEN CASE r.fault = "transport" -> Err(<<"HTTP request (embedContent) failed">>)
           [] r.fault = "body" -> Err(<<"Reading embedContent response body failed">>)
           [] r.fault = "status" -> Err(<<"Gemini embedContent failed: status ">>)
           [] r.fault = "decode" ->
                Err(<<"Failed to decode embedContent JSON. Raw: ", r.raw>>)
           [] r.fault = "none" ->
                IF r.data.embedding = None
                THEN Err(<<"Gemini responded with usage metadata only - no embedding produced">>)
                ELSE Ok(<<r.data.embedding[1].values>>)
    ELSE CASE r.fault = "transport" -> Err(<<"HTTP request (batchEmbedContents) failed">>)
           [] r.fault = "body" -> Err(<<"Reading batchEmbedContents response body failed">>)
           [] r.fault = "status" -> Err(<<"Gemini batchEmbedContents failed: status ">>)
           [] r.fault = "decode" ->
                Err(<<"Failed to decode batchEmbedContents JSON. Raw: ", r.raw>>)
           [] r.fault = "none" ->
                IF r.data.embeddings = None
                THEN Err(<<"Gemini responded with usage metadata only - no embeddings produced">>)
                ELSE Ok([i \in 1..Len(r.data.embeddings[1]) |->
                            r.data.embeddings[1][i].values])

---------------------------------------------------------------------------
(* providers/*/mod.rs: the synchronous embedding functions *)

NoWorker == [st |-> "none"]
Spawned == [st |-> "spawned"]
Awaiting == [st |-> "awaiting"]
Finished(values) == [st |-> "finished", values |-> values]
Panicked == [st |-> "panicked"]

\* the short-circuit taken for an empty input whatever the provider
returns_at_once_any_empty(client, input) ==
    \/ client.provider = "Anthropic"
    \/ input = <<>>

returns_at_once_anthropic_only(client, input) ==
    client.provider = "Anthropic"

\* whether the embedding function returns before spawning a worker, and
\* does so with an empty list
returns_at_once(client, input) ==
    \/ client.provider = "Anthropic"
    \/ client.provider = "OpenAI" /\ input = <<>>

embed_request_swapped(client, input) ==
    CASE client.provider = "OpenAI" -> gemini_embed_request(client, input)
      [] client.provider = "Gemini" -> openai_embed_request(client, input)

\* the request the worker's block_on(..embed_texts) posts
embed_request(client, input) ==
    CASE client.provider = "OpenAI" -> openai_embed_request(client, input)
      [] client.provider = "Gemini" -> gemini_embed_request(client, input)

worker_values_keep_error(client, input, r) ==
    LET res == IF client.provider = "OpenAI" THEN openai_embed_texts(r)
               ELSE gemini_embed_texts(input, r)
    IN IF res.ok THEN res.v ELSE <<res.err>>

\* the value the worker thread's closure evaluates to, from the answer on
worker_values(client, input, r) ==
    LET res == IF client.provider = "OpenAI" THEN openai_embed_texts(r)
               ELSE gemini_embed_texts(input, r)
    IN IF res.ok THEN res.v ELSE <<>>

\* match handle.join()
handle_join(w) == IF w.st = "finished" THEN w.values ELSE <<>>

---------------------------------------------------------------------------
(* src/commands: the data files.  A file is None while it does not exist   *)
(* and Some(list) when it holds the JSON of a list.                        *)

EmptyDisk == [prompts |-> None, log |-> None]

---------------------------------------------------------------------------
(* src/commands/prompts.rs *)

\* PromptTemplates::new, given the seconds t its clock read returned
PromptTemplates_new(id, name, system_prompt, user_prompt, t) ==
    [ id |-> IF id = None THEN ToDecimal(t) ELSE id[1],
      name |-> name,
      system_prompt |-> system_prompt,
      user_prompt |-> user_prompt,
      date_created |-> t ]

\* read_prompt_templates: a missing file is created as "[]" and read as the
\* empty list
read_prompt_templates(file) == IF file = None THEN <<>> ELSE file[1]

\* SystemTime::now() in whole seconds: what a read of the clock can return
clock_secs == 0..MaxSecs

RECURSIVE generate_unique_id(_, _)
\* generate_unique_id: the ids the loop can return from `counter` on, the
\* clock being read anew in every round
generate_unique_id(existing, counter) ==
    UNION { LET candidate == ToDecimal(t + counter)
            IN IF \A i \in 1..Len(existing) : existing[i].id # candidate
               THEN {candidate}
               ELSE generate_unique_id(existing, counter + 1) : t \in clock_secs }

\* save_prompts on the templates read, without the test for an id in use
save_prompts_no_unique(templates, payload) ==
    LET by_id == IF payload.id = None THEN {}
                 ELSE {i \in 1..Len(templates) : templates[i].id = payload.id[1]}
        by_name == IF payload.id # None THEN {}
                   ELSE {i \in 1..Len(templates) : templates[i].name = payload.name}
        first(idx) == CHOOSE i \in idx : \A j \in idx : i <= j
    IN IF by_id # {}
       THEN LET updated == [templates[first(by_id)] EXCEPT
                                !.name = payload.name,
                                !.system_prompt = payload.system_prompt,
                                !.user_prompt = payload.user_prompt]
            IN {[templates |-> [templates EXCEPT ![first(by_id)] = updated],
                 result |-> updated]}
       ELSE IF by_name # {}
       THEN LET updated == [templates[first(by_name)] EXCEPT
                                !.system_prompt = payload.system_prompt,
                                !.user_prompt = payload.user_prompt]
            IN {[templates |-> [templates EXCEPT ![first(by_name)] = updated],
                 result |-> updated]}
       ELSE {[templates |-> Append(templates, template), result |-> template] :
                template \in {PromptTemplates_new(payload.id, payload.name,
                                  payload.system_prompt, payload.user_prompt, t) :
                              t \in clock_secs}}

\* save_prompts on the templates read: the outcomes it can have, each the
\* list it writes and the template it returns; the clock readings of
\* PromptTemplates::new and of generate_unique_id make them several
save_prompts(templates, payload) ==
    LET by_id == IF payload.id = None THEN {}
                 ELSE {i \in 1..Len(templates) : templates[i].id = payload.id[1]}
        by_name == IF payload.id # None THEN {}
                   ELSE {i \in 1..Len(templates) : templates[i].name = payload.name}
        first(idx) == CHOOSE i \in idx : \A j \in idx : i <= j
    IN IF by_id # {}
       THEN LET updated == [templates[first(by_id)] EXCEPT
                                !.name = payload.name,
                                !.system_prompt = payload.system_prompt,
                                !.user_prompt = payload.user_prompt]
            IN {[templates |-> [templates EXCEPT ![first(by_id)] = updated],
                 result |-> updated]}
       ELSE IF by_name # {}
       THEN LET updated == [templates[first(by_name)] EXCEPT
                                !.system_prompt = payload.system_prompt,
                                !.user_prompt = payload.user_prompt]
            IN {[templates |-> [templates EXCEPT ![first(by_name)] = updated],
                 result |-> updated]}
       ELSE UNION {
              LET made == PromptTemplates_new(payload.id, payload.name,
                              payload.system_prompt, payload.user_prompt, t)
                  ids == IF \E i \in 1..Len(templates) : templates[i].id = made.id
                         THEN generate_unique_id(templates, 0) ELSE {made.id}
              IN {[templates |-> Append(templates, [made EXCEPT !.id = id]),
                   result |-> [made EXCEPT !.id = id]] : id \in ids}
              : t \in clock_secs }

RECURSIVE retain_other_ids(_, _)
\* templates.retain(|template| template.id != id)
retain_other_ids(templates, id) ==
    IF templates = <<>> THEN <<>>
    ELSE (IF templates[1].id # id THEN <<templates[1]>> ELSE <<>>)
         \o retain_other_ids(Tail(templates), id)

\* remove_prompts_by_id without the comparison of the lengths
remove_prompts_by_id_silent(templates, id) ==
    Ok(retain_other_ids(templates, id))

\* remove_prompts_by_id on the templates read: the list it writes, or the
\* error it returns without writing
remove_prompts_by_id(templates, id) ==
    LET retained == retain_other_ids(templates, id)
    IN IF Len(retained) = Len(templates)
       THEN Err(<<"Prompt template with id '", id, "' not found.">>)
       ELSE Ok(retained)

---------------------------------------------------------------------------
(* src/commands/generate.rs: the generation log *)

MAX_LOG_ENTRIES == 50

\* append_generation_log: the entries it starts from.  A file that does not
\* exist, and one that exists but cannot be read or parsed (readable =
\* FALSE: unwrap_or_else, unwrap_or_default), count as the empty list.
read_generation_log(file, readable) ==
    IF file = None \/ ~readable THEN <<>> ELSE file[1]

\* append_generation_log keeping the first entries of an overlong list
append_generation_log_keep_first(file, entry, readable) ==
    LET pushed == Append(read_generation_log(file, readable), entry)
    IN IF Len(pushed) > MAX_LOG_ENTRIES
       THEN SubSeq(pushed, 1, MAX_LOG_ENTRIES)
       ELSE pushed

\* append_generation_log: the list it writes
append_generation_log(file, entry, readable) ==
    LET pushed == Append(read_generation_log(file, readable), entry)
    IN IF Len(pushed) > MAX_LOG_ENTRIES
       THEN SubSeq(pushed, Len(pushed) - MAX_LOG_ENTRIES + 1, Len(pushed))
       ELSE pushed

---------------------------------------------------------------------------
(* Inputs of the calls *)

SeqsUpTo(S, n) == UNION {[1..k -> S] : k \in 0..n}

Roles == {"Human", "AI", "System"}

str_a == <<"a">>
str_b == <<"b">>
str_hi == <<"h", "i">>

\* a message as a caller hands it to an adapter
Message(role, content) ==
    [id |-> <<"1">>, role |-> role, content |-> content, created_at |-> 0]

Endpoints == {<<"e">>, <<"e", "/">>}
Models == {<<"m">>, str_models_prefix \o <<"m">>}

Clients(llm_type) ==
    {LLMClient(p, <<"e">>, <<"m">>, llm_type) : p \in Providers}
    \cup {LLMClient(p, <<"e", "/">>, str_models_prefix \o <<"m">>, llm_type) : p \in Providers}

CallContents == {<<>>, <<TEXT(str_a)>>}
CallMessages ==
    SeqsUpTo({Message(r, c) : r \in Roles, c \in CallContents}, MaxCallMsgs)

EmbedTexts == SeqsUpTo({str_a, str_b}, MaxTexts)

\* role strings: the words of the synonym table and others, in several
\* casings, bare or padded with whitespace
RoleWords ==
    {str_user, str_human, str_model, str_ai, str_assistant, str_system,
     <<"b", "o", "t">>, <<>>}
Casings(w) ==
    { w,
      [i \in 1..Len(w) |-> UpperChar(w[i])],
      [i \in 1..Len(w) |-> IF i = 1 THEN UpperChar(w[i]) ELSE w[i]],
      [i \in 1..Len(w) |-> IF i % 2 = 0 THEN UpperChar(w[i]) ELSE w[i]] }
Paddings(w) == {w, <<" ">> \o w, w \o <<NL>>, <<"\t">> \o w \o <<" ">>}
RoleStrings == UNION {UNION {Paddings(c) : c \in Casings(w)} : w \in RoleWords}

NewIds == {None, Some(<<"x">>)}

---------------------------------------------------------------------------
(* What the providers can answer *)

RawTexts == {"<html>", "{}"}

ChatFaults ==
    {Fault("transport"), Fault("status"), Fault("body")}
    \cup {Undecodable(raw) : raw \in RawTexts}

\* ChatCompletionResponse / ChatChoice / ChatMessage / ChatContentPart
OpenAIPart(kind, txt, url, b64) ==
    [kind |-> kind, text |-> txt, image_url |-> url, image_base64 |-> b64]
OpenAIChoice(role, content) == [message |-> [role |-> role, content |-> content]]
OpenAIChoices ==
    { OpenAIChoice(Some(str_assistant), Some(ChatText(str_a))),
      OpenAIChoice(None, None),
      OpenAIChoice(Some(str_user), Some(ChatParts(<<>>))),
      OpenAIChoice(Some(str_assistant), Some(ChatParts(
          << OpenAIPart("output_text", Some(str_b), None, None),
             OpenAIPart("output_image", None, None, Some(<<"Q">>)),
             OpenAIPart("refusal", None, None, None) >>))),
      OpenAIChoice(Some(str_assistant), Some(ChatParts(
          << OpenAIPart("refusal", Some(str_a), None, None),
             OpenAIPart("audio", None, None, Some(<<"Q">>)) >>))) }
OpenAIResponses ==
    {[id |-> id, choices |-> cs] :
        id \in {None, Some(<<"r">>)}, cs \in SeqsUpTo(OpenAIChoices, 2)}

\* AnthropicResponse / AnthropicContent / AnthropicImageSource
AnthropicPart(kind, txt, source, extra) ==
    [kind |-> kind, text |-> txt, source |-> source, extra |-> extra]
AnthropicParts ==
    { AnthropicPart("text", Some(str_a), None, None),
      AnthropicPart("image", None, Some([data |-> Some(<<"Q">>)]), None),
      AnthropicPart("tool_use", None, None, None),
      AnthropicPart("tool_use", None, None, Some(<<"{\"k\":1}">>)),
      AnthropicPart("text", None, None, None),
      AnthropicPart("image", None, Some([data |-> None]), None) }
AnthropicResponses ==
    {[id |-> id, role |-> role, content |-> c] :
        id \in {None, Some(<<"r">>)}, role \in {None, Some(str_assistant)},
        c \in SeqsUpTo(AnthropicParts, 2)}

\* GeminiResponse / Candidate / Content / Part / InlineData
GeminiPart(txt, inline) == [text |-> txt, inline_data |-> inline]
GeminiCandidate(parts) == [content |-> [parts |-> parts]]
GeminiCandidates ==
    { GeminiCandidate(<<GeminiPart(Some(str_a), None)>>),
      GeminiCandidate(<<GeminiPart(None, Some([mime_type |-> image_png, data |-> <<"Q">>])),
                        GeminiPart(Some(str_b), None)>>),
      GeminiCandidate(<<>>) }
GeminiResponses ==
    {[candidates |-> cs, response_id |-> id] :
        id \in {None, Some(<<"r">>)}, cs \in SeqsUpTo(GeminiCandidates, 2)}

ChatAnswers(provider) ==
    ChatFaults \cup
    {Decoded(d) : d \in CASE provider = "OpenAI" -> OpenAIResponses
                          [] provider = "Anthropic" -> AnthropicResponses
                          [] provider = "Gemini" -> GeminiResponses}

\* the vector the provider's model computes for a text
EmbeddingOf(t) == IF t = str_a THEN <<1, 0>> ELSE <<0, 1>>

Reverse(s) == [i \in 1..Len(s) |-> s[Len(s) + 1 - i]]

\* lists of vectors a provider may answer a request for `texts` with: one
\* per text in order, the same reversed, one short, one more, none
VectorLists(texts) ==
    LET faithful == [i \in 1..Len(texts) |-> EmbeddingOf(texts[i])]
    IN { faithful, Reverse(faithful),
         SubSeq(faithful, 1, Len(faithful) - 1),
         Append(faithful, EmbeddingOf(str_a)), <<>> }

EmbedFaults ==
    {Fault("transport"), Fault("status"), Fault("body"), Undecodable("<html>")}

\* EmbeddingResponse / EmbeddingData
OpenAIEmbedAnswers(texts) ==
    {Decoded([data |-> [i \in 1..Len(vs) |-> [embedding |-> vs[i]]]]) :
        vs \in VectorLists(texts)}

\* GeminiEmbedResponse / GeminiBatchEmbedResponse: the JSON object's
\* `embedding` and `embeddings` fields, absent (None) or present
GeminiEmbedAnswers(texts) ==
    {Decoded([embedding |-> None, embeddings |-> None])}
    \cup {Decoded([embedding |-> Some([values |-> vs[1]]), embeddings |-> None]) :
            vs \in {v \in VectorLists(texts) : v # <<>>}}
    \cup {Decoded([embedding |-> None,
                   embeddings |-> Some([i \in 1..Len(vs) |-> [values |-> vs[i]]])]) :
            vs \in VectorLists(texts)}

EmbedAnswers(provider, texts) ==
    EmbedFaults \cup
    (IF provider = "OpenAI" THEN OpenAIEmbedAnswers(texts) ELSE GeminiEmbedAnswers(texts))

---------------------------------------------------------------------------
(* The state machine of the calls *)

NoCall == [op |-> "none"]
NoRet == [op |-> "none"]

Init ==
    /\ pc = "idle"
    /\ call = NoCall
    /\ net = <<>>
    /\ resp = NoResp
    /\ worker = NoWorker
    /\ ret = NoRet
    /\ now = 0
    /\ disk = EmptyDisk
    /\ appended = <<>>

\* a caller builds a message with LLMMessage::new
NewMessage(id, role, content) ==
    /\ pc = "idle"
    /\ \E t1 \in current_timestamp_millis(now) :
       \E t2 \in current_timestamp_millis(t1) :
          /\ ret' = [op |-> "new", msg |-> LLMMessage_new(id, role, content, t1, t2)]
          /\ now' = t2
    /\ call' = [op |-> "new", id |-> id, role |-> role, content |-> content]
    /\ net' = <<>>
    /\ resp' = NoResp
    /\ worker' = NoWorker
    /\ pc' = "done"
    /\ UNCHANGED <<disk, appended>>

\* the chat function of get_llm_chat(client) is invoked: it builds and
\* posts its request and awaits the answer
ChatCall(client, messages) ==
    /\ pc = "idle"
    /\ call' = [op |-> "chat", client |-> client, messages |-> messages]
    /\ net' = <<chat_request(client, messages)>>
    /\ resp' = NoResp
    /\ worker' = NoWorker
    /\ ret' = NoRet
    /\ pc' = "chat_wait"
    /\ UNCHANGED now
    /\ UNCHANGED <<disk, appended>>

ChatRespond_retry(r) ==
    /\ pc = "chat_wait"
    /\ resp' = r
    /\ IF r.fault # "none" /\ Len(net) < 2
       THEN /\ net' = Append(net, net[1])
            /\ UNCHANGED <<pc, ret, now>>
       ELSE /\ \E t1 \in current_timestamp_millis(now) :
               \E t2 \in current_timestamp_millis(t1) :
                  /\ ret' = [op |-> "chat", msg |-> get_llm_chat(call.client, r, t1, t2)]
                  /\ now' = t2
            /\ pc' = "done"
            /\ UNCHANGED net
    /\ UNCHANGED <<call, worker>>
    /\ UNCHANGED <<disk, appended>>

\* the answer arrives (or the request fails) and the chat function resolves
ChatRespond(r) ==
    /\ pc = "chat_wait"
    /\ resp' = r
    /\ \E t1 \in current_timestamp_millis(now) :
       \E t2 \in current_timestamp_millis(t1) :
          /\ ret' = [op |-> "chat", msg |-> get_llm_chat(call.client, r, t1, t2)]
          /\ now' = t2
    /\ pc' = "done"
    /\ UNCHANGED <<call, net, worker>>
    /\ UNCHANGED <<disk, appended>>

\* the embedding function of get_llm_embedding(client) is invoked
EmbedCall(client, input) ==
    /\ pc = "idle"
    /\ call' = [op |-> "embed", client |-> client, input |-> input]
    /\ net' = <<>>
    /\ resp' = NoResp
    /\ IF returns_at_once(client, input)
       THEN /\ worker' = NoWorker
            /\ ret' = [op |-> "embed", values |-> <<>>]
            /\ pc' = "done"
       ELSE /\ worker' = Spawned
            /\ ret' = NoRet
            /\ pc' = "joining"
    /\ UNCHANGED now
    /\ UNCHANGED <<disk, appended>>

\* the worker creates its runtime and block_on posts the request
WorkerRequest ==
    /\ pc = "joining" /\ worker = Spawned
    /\ worker' = Awaiting
    /\ net' = Append(net, embed_request(call.client, call.input))
    /\ UNCHANGED <<pc, call, resp, ret, now>>
    /\ UNCHANGED <<disk, appended>>

\* tokio::runtime::Runtime::new() fails: the worker ends with no vectors
WorkerNoRuntime ==
    /\ pc = "joining" /\ worker = Spawned
    /\ worker' = Finished(<<>>)
    /\ UNCHANGED <<pc, call, net, resp, ret, now>>
    /\ UNCHANGED <<disk, appended>>

\* the answer arrives (or the request fails) and the worker ends
WorkerRespond(r) ==
    /\ pc = "joining" /\ worker = Awaiting
    /\ resp' = r
    /\ worker' = Finished(worker_values(call.client, call.input, r))
    /\ UNCHANGED <<pc, call, net, ret, now>>
    /\ UNCHANGED <<disk, appended>>

\* the worker panics
WorkerPanic ==
    /\ pc = "joining" /\ worker \in {Spawned, Awaiting}
    /\ worker' = Panicked
    /\ UNCHANGED <<pc, call, net, resp, ret, now>>
    /\ UNCHANGED <<disk, appended>>

HandleJoin_early ==
    /\ pc = "joining"
    /\ ret' = [op |-> "embed", values |-> handle_join(worker)]
    /\ pc' = "done"
    /\ UNCHANGED <<call, net, resp, worker, now>>
    /\ UNCHANGED <<disk, appended>>

\* handle.join() returns and the embedding function with it
HandleJoin ==
    /\ pc = "joining" /\ worker.st \in {"finished", "panicked"}
    /\ ret' = [op |-> "embed", values |-> handle_join(worker)]
    /\ pc' = "done"
    /\ UNCHANGED <<call, net, resp, worker, now>>
    /\ UNCHANGED <<disk, appended>>

\* the caller takes the returned value; the operation leaves nothing behind
\* (the closures own a clone of the client and every call builds a fresh
\* reqwest Client), so the next operation starts from the same situation
Release ==
    /\ pc = "done"
    /\ pc' = "idle"
    /\ call' = NoCall
    /\ net' = <<>>
    /\ resp' = NoResp
    /\ worker' = NoWorker
    /\ ret' = NoRet
    /\ UNCHANGED now
    /\ UNCHANGED <<disk, appended>>

Next ==
    \/ \E id \in NewIds, role \in RoleStrings, content \in CallContents :
          NewMessage(id, role, content)
    \/ \E client \in Clients("Chat"), messages \in CallMessages :
          ChatCall(client, messages)
    \/ /\ pc = "chat_wait"
       /\ \E r \in ChatAnswers(call.client.provider) : ChatRespond(r)
    \/ \E client \in Clients("Embedding"), input \in EmbedTexts :
          EmbedCall(client, input)
    \/ WorkerRequest
    \/ WorkerNoRuntime
    \/ /\ pc = "joining"
       /\ \E r \in EmbedAnswers(call.client.provider, call.input) : WorkerRespond(r)
    \/ WorkerPanic
    \/ HandleJoin
    \/ Release

Spec == Init /\ [][Next]_vars

\* the same calls, every HTTP exchange of a chat call coming to an end (an
\* answer or a failure) and the runtime polling the call's future again
FairSpec ==
    /\ Spec
    /\ WF_vars(/\ pc = "chat_wait"
               /\ \E r \in ChatAnswers(call.client.provider) : ChatRespond(r))

---------------------------------------------------------------------------
(* Request construction and parsing as functions of their input: the       *)
(* initial states draw a conversation, the actions apply the adapters'     *)
(* conversions to it.                                                      *)

path_png == <<"a", ".", "p", "n", "g">>

RequestParts ==
    { TEXT(<<>>), TEXT(str_a), TEXT(str_b), TEXT(str_hi),
      IMAGE(<<"Q">>, None), IMAGE(<<",", "Q">>, Some(path_png)) }

RECURSIVE Sum(_)
Sum(lens) == IF lens = <<>> THEN 0 ELSE lens[1] + Sum(Tail(lens))

\* the conversation of Len(roles) messages whose i-th message has role
\* roles[i] and the next lens[i] parts of ps
Conversation(roles, lens, ps) ==
    [i \in 1..Len(roles) |->
        Message(roles[i],
                SubSeq(ps, Sum(SubSeq(lens, 1, i - 1)) + 1, Sum(SubSeq(lens, 1, i))))]

\* the part counts of conversations of n messages: at most MaxParts parts
\* each and MaxTotalParts parts in all
PartCounts(n) == {l \in [1..n -> 0..MaxParts] : Sum(l) <= MaxTotalParts}

RequestClient(provider) == LLMClient(provider, <<"e">>, <<"m">>, "Chat")

InitRequest ==
    /\ pc = "input"
    /\ \E n \in 0..MaxMsgs : \E lens \in PartCounts(n) :
       \E roles \in [1..n -> Roles], ps \in [1..Sum(lens) -> RequestParts] :
          call = [op |-> "input", messages |-> Conversation(roles, lens, ps)]
    /\ net = <<>>
    /\ resp = NoResp
    /\ worker = NoWorker
    /\ ret = NoRet
    /\ now = 0
    /\ disk = EmptyDisk
    /\ appended = <<>>

\* a chat adapter builds the request for the conversation
BuildRequest(provider) ==
    /\ pc = "input"
    /\ call' = [op |-> "build", client |-> RequestClient(provider),
                messages |-> call.messages]
    /\ net' = <<chat_request(RequestClient(provider), call.messages)>>
    /\ pc' = "built"
    /\ UNCHANGED <<resp, worker, ret, now>>
    /\ UNCHANGED <<disk, appended>>

\* the content of each entry of an OpenAI messages array is read back the
\* way a response's content is
ParseBack ==
    /\ pc = "built" /\ call.client.provider = "OpenAI"
    /\ ret' = [op |-> "parse",
               contents |-> [i \in 1..Len(net[1].body.messages) |->
                   openai_contents(Some(ChatContent(net[1].body.messages[i].content)))]]
    /\ pc' = "parsed"
    /\ UNCHANGED <<call, net, resp, worker, now>>
    /\ UNCHANGED <<disk, appended>>

NextRequest ==
    \/ \E provider \in Providers : BuildRequest(provider)
    \/ ParseBack

SpecRequest == InitRequest /\ [][NextRequest]_vars

---------------------------------------------------------------------------
(* Concurrent calls: MaxCalls call sites run chat and embedding calls in   *)
(* any interleaving.  Every variable but the clock is a function of the    *)
(* call site; each call site has its own function, built from the client   *)
(* `fn`, and an invocation works on its clone `client` of it.              *)

MaxCalls == 2

Calls == 1..MaxCalls

ConcMessages == {<<>>, <<Message("Human", <<TEXT(str_a)>>)>>}

ConcInputs == {<<>>, <<str_a>>}

\* a failure and one well-formed answer of each provider
ConcChatAnswers(provider) ==
    { Fault("status"),
      Decoded(CASE provider = "OpenAI" ->
                     [id |-> Some(<<"r">>),
                      choices |-> <<OpenAIChoice(Some(str_assistant), Some(ChatText(str_b)))>>]
                [] provider = "Anthropic" ->
                     [id |-> Some(<<"r">>), role |-> Some(str_assistant),
                      content |-> <<AnthropicPart("text", Some(str_b), None, None)>>]
                [] provider = "Gemini" ->
                     [candidates |-> <<GeminiCandidate(<<GeminiPart(Some(str_b), None)>>)>>,
                      response_id |-> Some(<<"r">>)]) }

InitConcurrent ==
    /\ pc = [i \in Calls |-> "idle"]
    /\ call = [i \in Calls |-> NoCall]
    /\ net = [i \in Calls |-> <<>>]
    /\ resp = [i \in Calls |-> NoResp]
    /\ worker = [i \in Calls |-> NoWorker]
    /\ ret = [i \in Calls |-> NoRet]
    /\ now = 0
    /\ disk = EmptyDisk
    /\ appended = <<>>

\* call site i invokes its chat function: the closure clones its client,
\* builds and posts the request and awaits the answer
ConcChatCall(i, client, messages) ==
    /\ pc[i] = "idle"
    /\ call' = [call EXCEPT ![i] = [op |-> "chat", fn |-> client,
                                    client |-> client, messages |-> messages]]
    /\ net' = [net EXCEPT ![i] = <<chat_request(client, messages)>>]
    /\ pc' = [pc EXCEPT ![i] = "chat_wait"]
    /\ UNCHANGED <<resp, worker, ret, now>>
    /\ UNCHANGED <<disk, appended>>

ConcChatRespond_shared(i, r) ==
    /\ pc[i] = "chat_wait"
    /\ resp' = [j \in Calls |-> IF pc[j] = "chat_wait" THEN r ELSE resp[j]]
    /\ \E t1 \in current_timestamp_millis(now) :
       \E t2 \in current_timestamp_millis(t1) :
          /\ ret' = [ret EXCEPT ![i] =
                        [op |-> "chat", msg |-> get_llm_chat(call[i].client, r, t1, t2)]]
          /\ now' = t2
    /\ pc' = [pc EXCEPT ![i] = "done"]
    /\ UNCHANGED <<call, net, worker>>
    /\ UNCHANGED <<disk, appended>>

\* the answer to call i's request arrives and its chat function resolves
ConcChatRespond(i, r) ==
    /\ pc[i] = "chat_wait"
    /\ resp' = [resp EXCEPT ![i] = r]
    /\ \E t1 \in current_timestamp_millis(now) :
       \E t2 \in current_timestamp_millis(t1) :
          /\ ret' = [ret EXCEPT ![i] =
                        [op |-> "chat", msg |-> get_llm_chat(call[i].client, r, t1, t2)]]
          /\ now' = t2
    /\ pc' = [pc EXCEPT ![i] = "done"]
    /\ UNCHANGED <<call, net, worker>>
    /\ UNCHANGED <<disk, appended>>

\* call site i invokes its embedding function
ConcEmbedCall(i, client, input) ==
    /\ pc[i] = "idle"
    /\ call' = [call EXCEPT ![i] = [op |-> "embed", fn |-> client,
                                    client |-> client, input |-> input]]
    /\ IF returns_at_once(client, input)
       THEN /\ ret' = [ret EXCEPT ![i] = [op |-> "embed", values |-> <<>>]]
            /\ pc' = [pc EXCEPT ![i] = "done"]
            /\ UNCHANGED worker
       ELSE /\ worker' = [worker EXCEPT ![i] = Spawned]
            /\ pc' = [pc EXCEPT ![i] = "joining"]
            /\ UNCHANGED ret
    /\ UNCHANGED <<net, resp, now>>
    /\ UNCHANGED <<disk, appended>>

\* call i's worker creates its runtime and posts the request
ConcWorkerRequest(i) ==
    /\ pc[i] = "joining" /\ worker[i] = Spawned
    /\ worker' = [worker EXCEPT ![i] = Awaiting]
    /\ net' = [net EXCEPT ![i] = <<embed_request(call[i].client, call[i].input)>>]
    /\ UNCHANGED <<pc, call, resp, ret, now>>
    /\ UNCHANGED <<disk, appended>>

\* call i's worker cannot create its runtime
ConcWorkerNoRuntime(i) ==
    /\ pc[i] = "joining" /\ worker[i] = Spawned
    /\ worker' = [worker EXCEPT ![i] = Finished(<<>>)]
    /\ UNCHANGED <<pc, call, net, resp, ret, now>>
    /\ UNCHANGED <<disk, appended>>

\* the answer to the request of call i's worker arrives and the worker ends
ConcWorkerRespond(i, r) ==
    /\ pc[i] = "joining" /\ worker[i] = Awaiting
    /\ resp' = [resp EXCEPT ![i] = r]
    /\ worker' = [worker EXCEPT ![i] =
                     Finished(worker_values(call[i].client, call[i].input, r))]
    /\ UNCHANGED <<pc, call, net, ret, now>>
    /\ UNCHANGED <<disk, appended>>

\* call i's worker panics
ConcWorkerPanic(i) ==
    /\ pc[i] = "joining" /\ worker[i] \in {Spawned, Awaiting}
    /\ worker' = [worker EXCEPT ![i] = Panicked]
    /\ UNCHANGED <<pc, call, net, resp, ret, now>>
    /\ UNCHANGED <<disk, appended>>

\* call i's handle.join() returns and its embedding function with it
ConcHandleJoin(i) ==
    /\ pc[i] = "joining" /\ worker[i].st \in {"finished", "panicked"}
    /\ ret' = [ret EXCEPT ![i] = [op |-> "embed", values |-> handle_join(worker[i])]]
    /\ pc' = [pc EXCEPT ![i] = "done"]
    /\ UNCHANGED <<call, net, resp, worker, now>>
    /\ UNCHANGED <<disk, appended>>

\* the caller at site i takes the returned value
ConcRelease(i) ==
    /\ pc[i] = "done"
    /\ pc' = [pc EXCEPT ![i] = "idle"]
    /\ call' = [call EXCEPT ![i] = NoCall]
    /\ net' = [net EXCEPT ![i] = <<>>]
    /\ resp' = [resp EXCEPT ![i] = NoResp]
    /\ worker' = [worker EXCEPT ![i] = NoWorker]
    /\ ret' = [ret EXCEPT ![i] = NoRet]
    /\ UNCHANGED now
    /\ UNCHANGED <<disk, appended>>

NextConcurrent ==
    \E i \in Calls :
        \/ \E p \in Providers, messages \in ConcMessages :
              ConcChatCall(i, RequestClient(p), messages)
        \/ /\ pc[i] = "chat_wait"
           /\ \E r \in ConcChatAnswers(call[i].client.provider) : ConcChatRespond(i, r)
        \/ \E p \in Providers, input \in ConcInputs :
              ConcEmbedCall(i, LLMClient(p, <<"e">>, <<"m">>, "Embedding"), input)
        \/ ConcWorkerRequest(i)
        \/ ConcWorkerNoRuntime(i)
        \/ /\ pc[i] = "joining"
           /\ \E r \in {Fault("transport")}
                        \cup (IF call[i].client.provider = "OpenAI"
                              THEN OpenAIEmbedAnswers(call[i].input)
                              ELSE GeminiEmbedAnswers(call[i].input)) :
                 ConcWorkerRespond(i, r)
        \/ ConcWorkerPanic(i)
        \/ ConcHandleJoin(i)
        \/ ConcRelease(i)

SpecConcurrent == InitConcurrent /\ [][NextConcurrent]_vars

---------------------------------------------------------------------------
(* The commands on the data files, one at a time.  `call` is the command   *)
(* last invoked and `ret` its result; `resp` is what the file system did:  *)
(* fault is "none", "read" or "write", data the list the command read.     *)

PromptPayloads ==
    {[id |-> id, name |-> name, system_prompt |-> s, user_prompt |-> <<"u">>] :
        id \in {None, Some(<<"1">>)},
        name \in {<<"n">>, <<"p">>},
        s \in {<<"s">>, <<"t">>}}

RemoveIds == {<<"0">>, <<"1">>, <<"9">>}

\* the entry of the n-th generation that reaches the log
LogEntry(n) == [timestamp |-> 0, prompt |-> ToDecimal(n)]

InitStore ==
    /\ pc = "store"
    /\ call = NoCall
    /\ net = <<>>
    /\ resp = NoResp
    /\ worker = NoWorker
    /\ ret = NoRet
    /\ now = 0
    /\ disk = EmptyDisk
    /\ appended = <<>>

\* save_prompts(payload)
SavePrompts(payload) ==
    /\ pc = "store"
    /\ call' = [op |-> "save_prompts", payload |-> payload]
    /\ LET templates == read_prompt_templates(disk.prompts)
       IN \E io \in {"none", "read", "write"} :
             CASE io = "read" ->
                      /\ resp' = [fault |-> io, data |-> <<>>]
                      /\ ret' = Err(<<"Unable to read prompts file">>)
                      /\ disk' = disk
                 [] io = "write" ->
                      /\ resp' = [fault |-> io, data |-> templates]
                      /\ ret' = Err(<<"Unable to write prompts file">>)
                      /\ disk' = [disk EXCEPT !.prompts = Some(templates)]
                 [] io = "none" ->
                      \E out \in save_prompts(templates, payload) :
                         /\ Len(out.templates) <= MaxTemplates
                         /\ resp' = [fault |-> io, data |-> templates]
                         /\ ret' = Ok(out.result)
                         /\ disk' = [disk EXCEPT !.prompts = Some(out.templates)]
    /\ UNCHANGED <<pc, net, worker, now, appended>>

\* remove_prompts_by_id(id)
RemovePromptsById(id) ==
    /\ pc = "store"
    /\ call' = [op |-> "remove_prompts_by_id", id |-> id]
    /\ LET templates == read_prompt_templates(disk.prompts)
           res == remove_prompts_by_id(templates, id)
       IN \E io \in {"none", "read"} \cup (IF res.ok THEN {"write"} ELSE {}) :
             CASE io = "read" ->
                      /\ resp' = [fault |-> io, data |-> <<>>]
                      /\ ret' = Err(<<"Unable to read prompts file">>)
                      /\ disk' = disk
                 [] io = "write" ->
                      /\ resp' = [fault |-> io, data |-> templates]
                      /\ ret' = Err(<<"Unable to write prompts file">>)
                      /\ disk' = [disk EXCEPT !.prompts = Some(templates)]
                 [] io = "none" ->
                      /\ resp' = [fault |-> io, data |-> templates]
                      /\ ret' = IF res.ok THEN Ok(<<>>) ELSE res
                      /\ disk' = [disk EXCEPT !.prompts =
                                     Some(IF res.ok THEN res.v ELSE templates)]
    /\ UNCHANGED <<pc, net, worker, now, appended>>

NextPrompts ==
    \/ \E payload \in PromptPayloads : SavePrompts(payload)
    \/ \E id \in RemoveIds : RemovePromptsById(id)

SpecPrompts == InitStore /\ [][NextPrompts]_vars

\* append_generation_log(entry), called at the end of a generation
AppendGenerationLog ==
    /\ pc = "store"
    /\ Len(appended) < MaxAppends
    /\ LET entry == LogEntry(Len(appended) + 1)
       IN /\ call' = [op |-> "append_generation_log", entry |-> entry]
          /\ \E readable \in BOOLEAN, writable \in BOOLEAN :
                /\ resp' = [fault |-> IF ~writable THEN "write"
                                      ELSE IF ~readable THEN "read" ELSE "none",
                            data |-> read_generation_log(disk.log, readable)]
                /\ IF writable
                   THEN /\ disk' = [disk EXCEPT !.log =
                                       Some(append_generation_log(disk.log, entry, readable))]
                        /\ appended' = Append(appended, entry)
                        /\ ret' = Ok(<<>>)
                   ELSE /\ ret' = Err(<<"Failed to write generation log">>)
                        /\ UNCHANGED <<disk, appended>>
    /\ UNCHANGED <<pc, net, worker, now>>

NextLog == AppendGenerationLog

SpecLog == InitStore /\ [][NextLog]_vars

---------------------------------------------------------------------------
(* Properties of the chat and embedding functions and of LLMMessage::new  *)

RequestFaults == {"transport", "status", "body", "decode"}

ChatDone == pc = "done" /\ call.op = "chat"
EmbedDone == pc = "done" /\ call.op = "embed"
NewDone == pc = "done" /\ call.op = "new"

\* a string, as a sequence of characters or chunks, with no character
IsEmptyString(t) == \A i \in 1..Len(t) : t[i] = ""

\* e occurs in t as a run of consecutive elements
Embeds(t, e) ==
    \E i \in 0..(Len(t) - Len(e)) : SubSeq(t, i + 1, i + Len(e)) = e

\* C1: for each provider, whenever the request of a chat call fails
\* (transport failure, non-2xx status, unreadable or undecodable body) the
\* chat function still resolves to a message, whose role is System and whose
\* content is exactly one Text part with a non-empty string.
C1_ChatFailureIsSystemMessage ==
    (ChatDone /\ resp.fault \in RequestFaults) =>
        /\ ret.op = "chat"
        /\ ret.msg.role = "System"
        /\ Len(ret.msg.content) = 1
        /\ ret.msg.content[1].kind = "TEXT"
        /\ ~IsEmptyString(ret.msg.content[1].text)

C1_Witness ==
    /\ ChatDone
    /\ call.client.provider = "Anthropic"
    /\ resp.fault = "transport"
    /\ ret.msg.role = "System"

\* the error, if any, the adapter of the call's provider ended with
AdapterError ==
    LET p == call.client.provider
        res == CASE p = "OpenAI" -> send_chat_completion(resp, 0, 0)
                 [] p = "Anthropic" -> send_message(resp, 0, 0)
                 [] p = "Gemini" ->
                      LET sent == send_generate_request(resp)
                      IN IF sent.ok THEN response_to_text_data(sent.v) ELSE sent
    IN IF res.ok THEN None ELSE Some(res.err)

\* C2: for every provider and every adapter-level failure (network, non-2xx,
\* decode error, missing candidate or choice) the chat function returns a
\* System message whose text embeds the description of the error that
\* occurred.
C2_ChatFailureTextEmbedsError ==
    (ChatDone /\ AdapterError # None) =>
        /\ ret.msg.role = "System"
        /\ Embeds(ret.msg.content[1].text, AdapterError[1])

\* the embedding call ended without a usable answer: the worker panicked,
\* could not create its runtime (it ended without a request), the request
\* failed, or Gemini answered without the field the endpoint called carries
UsageOnly ==
    /\ call.client.provider = "Gemini"
    /\ resp.fault = "none"
    /\ IF Len(call.input) = 1 THEN resp.data.embedding = None
       ELSE resp.data.embeddings = None

EmbedFailed ==
    \/ worker.st = "panicked"
    \/ worker.st = "finished" /\ net = <<>>
    \/ resp.fault \in RequestFaults
    \/ UsageOnly

\* C3: for the OpenAI and Gemini embedding functions every failure of the
\* underlying call (transport error, non-2xx status, decode error, usage-only
\* response, no runtime, worker panic) makes the function return an empty
\* list of vectors: the caller gets a list, never an error.
C3_EmbedFailureIsEmptyList ==
    (EmbedDone /\ call.client.provider \in {"OpenAI", "Gemini"} /\ EmbedFailed) =>
        ret = [op |-> "embed", values |-> <<>>]

C3_Witness ==
    /\ EmbedDone
    /\ UsageOnly
    /\ Len(call.input) = 1
    /\ ret.values = <<>>

\* C4 as stated: for every input list the returned list has the input's
\* length and its i-th vector is the embedding of the i-th text.
C4_Original ==
    EmbedDone =>
        /\ Len(ret.values) = Len(call.input)
        /\ \A i \in 1..Len(call.input) : ret.values[i] = EmbeddingOf(call.input[i])

\* the vectors of a decoded embedding answer, in the answer's order
ResponseVectors ==
    IF call.client.provider = "OpenAI"
    THEN [i \in 1..Len(resp.data.data) |-> resp.data.data[i].embedding]
    ELSE IF Len(call.input) = 1 THEN <<resp.data.embedding[1].values>>
    ELSE [i \in 1..Len(resp.data.embeddings[1]) |-> resp.data.embeddings[1][i].values]

EmbedSucceeded ==
    /\ call.client.provider \in {"OpenAI", "Gemini"}
    /\ worker.st = "finished"
    /\ resp.fault = "none"
    /\ ~UsageOnly

\* C4, amended: when the provider is OpenAI or Gemini and the underlying call
\* succeeds, the returned list is exactly the vectors of the provider's
\* answer in the answer's order, so it has the input's length and its i-th
\* vector is the embedding of the i-th text whenever the provider answered
\* with one vector per text in input order; in every other case the returned
\* list is empty.
C4_EmbedReturnsAnswerInOrder ==
    EmbedDone =>
        IF EmbedSucceeded
        THEN /\ ret.values = ResponseVectors
             /\ (ResponseVectors = [i \in 1..Len(call.input) |-> EmbeddingOf(call.input[i])])
                    => /\ Len(ret.values) = Len(call.input)
                       /\ \A i \in 1..Len(call.input) :
                             ret.values[i] = EmbeddingOf(call.input[i])
        ELSE ret.values = <<>>

C4_Witness ==
    /\ EmbedDone
    /\ EmbedSucceeded
    /\ call.client.provider = "OpenAI"
    /\ call.input = <<str_a, str_b>>
    /\ ret.values = <<EmbeddingOf(str_a), EmbeddingOf(str_b)>>

\* s is w in some casing
IsCasingOf(s, w) ==
    /\ Len(s) = Len(w)
    /\ \A i \in 1..Len(w) : s[i] = w[i] \/ s[i] = UpperChar(w[i])

\* s is w in some casing, between runs of whitespace
IsPaddedCasingOf(s, w) ==
    \E i \in 1..Len(s) : \E j \in i..Len(s) :
        /\ IsCasingOf(SubSeq(s, i, j), w)
        /\ \A k \in 1..Len(s) : (k < i \/ k > j) => IsWhitespace(s[k])

\* the words of the synonym table and the role each stands for
TableWords == {str_user, str_human, str_model, str_ai, str_assistant, str_system}

WordRole(w) ==
    IF w \in {str_user, str_human} THEN "Human"
    ELSE IF w \in {str_model, str_ai, str_assistant} THEN "AI"
    ELSE "System"

\* the roles of the table's words that s is a casing of; Human when s is a
\* casing of none
CasedRole(s) ==
    LET roles == {WordRole(w) : w \in {x \in TableWords : IsCasingOf(s, x)}}
    IN IF roles = {} THEN {"Human"} ELSE roles

\* the same, s being a casing of a word between runs of whitespace
PaddedCasedRole(s) ==
    LET roles == {WordRole(w) : w \in {x \in TableWords : IsPaddedCasingOf(s, x)}}
    IN IF roles = {} THEN {"Human"} ELSE roles

\* C5 as stated: any casing of a word of the table gives the word's role and
\* every other role string gives Human.
C5_Original ==
    NewDone => {ret.msg.role} = CasedRole(call.role)

\* C5, amended: the role string is first trimmed of surrounding whitespace;
\* any casing of user or human then gives Human, of model, ai or assistant
\* AI, of system System, and every other string gives Human.
C5_RoleCanonicalization ==
    NewDone => {ret.msg.role} = PaddedCasedRole(call.role)

C5_Witness ==
    /\ NewDone
    /\ call.role = <<" ", "S", "Y", "S", "T", "E", "M">>
    /\ ret.msg.role = "System"

\* the last chunk of a request's URL: the endpoint's method
Method(request) == request.url[Len(request.url)]

\* C10: a Gemini embedding call with one text issues exactly one request, to
\* embedContent; with two or more texts exactly one request, to
\* batchEmbedContents, carrying one sub-request per text in input order; no
\* call issues a request to both.
C10_GeminiEmbedEndpoint ==
    (call.op = "embed" /\ call.client.provider = "Gemini") =>
        /\ Len(net) <= 1
        /\ (worker.st = "awaiting" \/ resp # NoResp) => Len(net) = 1
        /\ \A k \in 1..Len(net) :
              IF Len(call.input) = 1
              THEN /\ Method(net[k]) = ":embedContent"
                   /\ net[k].body.content.parts = <<[text |-> call.input[1]]>>
              ELSE /\ Method(net[k]) = ":batchEmbedContents"
                   /\ Len(net[k].body.requests) = Len(call.input)
                   /\ \A i \in 1..Len(call.input) :
                         net[k].body.requests[i].content.parts
                             = <<[text |-> call.input[i]]>>

C10_Witness ==
    /\ call.op = "embed" /\ call.client.provider = "Gemini"
    /\ worker.st = "awaiting"
    /\ call.input = <<str_a, str_b>>
    /\ Method(net[1]) = ":batchEmbedContents"

---------------------------------------------------------------------------
(* Properties of request construction and of the OpenAI round trip *)

Built(provider) == pc = "built" /\ call.client.provider = provider

EmptyTextPart == [type |-> "text", text |-> <<>>]

RECURSIVE NewlineJoined(_)
\* the strings of ts with one newline between neighbours
NewlineJoined(ts) ==
    IF ts = <<>> THEN <<>>
    ELSE LET n == Len(ts)
         IN NewlineJoined(SubSeq(ts, 1, n - 1))
            \o (IF n > 1 THEN <<NL>> ELSE <<>>) \o ts[n]

\* the strings of the Text parts of a content list, in order
TextsOf(content) ==
    LET idx == {i \in 1..Len(content) : content[i].kind = "TEXT"}
        nth(k) == CHOOSE i \in idx : Cardinality({j \in idx : j < i}) = k - 1
    IN [k \in 1..Cardinality(idx) |-> content[nth(k)].text]

\* the messages of the conversation at the positions idx, in input order
KeptAt(messages, idx) ==
    LET nth(k) == CHOOSE i \in idx : Cardinality({j \in idx : j < i}) = k - 1
    IN [k \in 1..Cardinality(idx) |-> messages[nth(k)]]

SystemAt(messages) == {i \in 1..Len(messages) : messages[i].role = "System"}
NotSystemAt(messages) == {i \in 1..Len(messages) : messages[i].role # "System"}
SystemTextAt(messages) ==
    {i \in SystemAt(messages) : NewlineJoined(TextsOf(messages[i].content)) # <<>>}

\* the wire entry of the i-th message of the conversation carries exactly
\* one empty Text part (for OpenAI also in its string form, the empty string)
CarriesOneEmptyText(i) ==
    LET p == call.client.provider
        body == net[1].body
    IN CASE p = "OpenAI" ->
                body.messages[i].content \in {JStr(<<>>), JArr(<<EmptyTextPart>>)}
         [] p = "Gemini" -> body.contents[i].parts = <<[text |-> <<>>]>>
         [] p = "Anthropic" ->
                LET k == Cardinality({j \in 1..i : call.messages[j].role # "System"})
                IN call.messages[i].role # "System"
                      => body.messages[k].content = <<EmptyTextPart>>

\* C6: for every message with an empty content list submitted to any of the
\* three chat adapters, the wire payload entry for that message carries
\* exactly one empty Text part, never an empty array.
C6_EmptyContentBecomesEmptyText ==
    pc = "built" =>
        \A i \in 1..Len(call.messages) :
            call.messages[i].content = <<>> => CarriesOneEmptyText(i)

\* the Anthropic content array mirrors a content list part by part, an empty
\* list being one empty Text part
AnthropicMirrors(content, wire) ==
    IF content = <<>> THEN wire = <<EmptyTextPart>>
    ELSE /\ Len(wire) = Len(content)
         /\ \A j \in 1..Len(content) :
               IF content[j].kind = "TEXT"
               THEN wire[j].type = "text" /\ wire[j].text = content[j].text
               ELSE wire[j].type = "image" /\ wire[j].source.data = content[j].data_b64

\* the messages array holds exactly the non-System messages, in input order,
\* Human as user and AI as assistant
AnthropicMessagesArray ==
    LET kept == KeptAt(call.messages, NotSystemAt(call.messages))
        wire == net[1].body.messages
    IN /\ Len(wire) = Len(kept)
       /\ \A k \in 1..Len(kept) :
             /\ wire[k].role = (IF kept[k].role = "Human" THEN "user" ELSE "assistant")
             /\ AnthropicMirrors(kept[k].content, wire[k].content)

C7_Example ==
    <<Message("System", <<TEXT(str_a)>>), Message("System", <<TEXT(str_b)>>),
      Message("Human", <<TEXT(str_hi)>>)>>

C7_ExamplePayload ==
    /\ net[1].body.system = Some(<<"a", NL, "b">>)
    /\ net[1].body.messages = <<[role |-> "user",
                                 content |-> <<[type |-> "text", text |-> str_hi]>>]>>

\* C7 as stated: no System message is an entry of the messages array, the
\* text of all System messages is joined with newlines, in input order, into
\* the system field, and the messages array is the non-System messages.
C7_Original ==
    Built("Anthropic") =>
        LET sys == KeptAt(call.messages, SystemAt(call.messages))
            texts == [k \in 1..Len(sys) |-> NewlineJoined(TextsOf(sys[k].content))]
        IN /\ AnthropicMessagesArray
           /\ sys # <<>> =>
                 \/ net[1].body.system = Some(NewlineJoined(texts))
                 \/ NewlineJoined(texts) = <<>> /\ net[1].body.system = None
           /\ call.messages = C7_Example => C7_ExamplePayload

\* C7, amended: no System message is an entry of the messages array; the
\* texts of the System messages whose text is not empty are joined with
\* newlines, in input order, into the system field, which is omitted when
\* there is no such message; the messages array is exactly the non-System
\* messages in input order, Human as user and AI as assistant; for
\* [System(a), System(b), Human(hi)] system is a\nb and messages is one user
\* message with the single text part hi.
C7_AnthropicSystemPrompt ==
    Built("Anthropic") =>
        LET sys == KeptAt(call.messages, SystemTextAt(call.messages))
            texts == [k \in 1..Len(sys) |-> NewlineJoined(TextsOf(sys[k].content))]
        IN /\ AnthropicMessagesArray
           /\ net[1].body.system =
                 (IF sys = <<>> THEN None ELSE Some(NewlineJoined(texts)))
           /\ call.messages = C7_Example => C7_ExamplePayload

C7_Witness ==
    /\ Built("Anthropic")
    /\ call.messages = C7_Example
    /\ C7_ExamplePayload

\* C8: OpenAI serializes a message's content as one string, its Text parts
\* joined with newlines in order, exactly when every part is Text, and as an
\* array with one entry per part in the original order as soon as one part is
\* an Image.
C8_OpenAIContentShape ==
    Built("OpenAI") =>
        \A i \in 1..Len(call.messages) :
            LET content == call.messages[i].content
                wire == net[1].body.messages[i].content
            IN IF \A j \in 1..Len(content) : content[j].kind = "TEXT"
               THEN wire = JStr(NewlineJoined(TextsOf(content)))
               ELSE /\ wire.j = "array"
                    /\ Len(wire.a) = Len(content)
                    /\ \A j \in 1..Len(content) :
                          IF content[j].kind = "TEXT"
                          THEN wire.a[j] = [type |-> "text", text |-> content[j].text]
                          ELSE /\ wire.a[j].type = "input_image"
                               /\ Embeds(wire.a[j].image_url.url,
                                         str_base64 \o content[j].data_b64)

C8_Witness ==
    /\ Built("OpenAI")
    /\ Len(call.messages) = 2
    /\ call.messages[1].content = <<TEXT(str_a), TEXT(str_b)>>
    /\ net[1].body.messages[1].content = JStr(<<"a", NL, "b">>)
    /\ call.messages[2].content = <<IMAGE(<<"Q">>, None)>>
    /\ net[1].body.messages[2].content.j = "array"

\* C9: for every content sequence with at least one Image, serializing it
\* with convert_message and parsing the array back with convert_openai_parts
\* gives a sequence of the same length with the same Text strings and the
\* same Image base64 data at the same positions; only the source path is
\* lost.
C9_OpenAIRoundTrip ==
    (pc = "parsed") =>
        \A i \in 1..Len(call.messages) :
            LET content == call.messages[i].content
                back == ret.contents[i]
            IN (\E j \in 1..Len(content) : content[j].kind = "IMAGE") =>
                  /\ Len(back) = Len(content)
                  /\ \A j \in 1..Len(content) :
                        IF content[j].kind = "TEXT"
                        THEN back[j] = TEXT(content[j].text)
                        ELSE back[j] = IMAGE(content[j].data_b64, None)

C9_Witness ==
    /\ pc = "parsed"
    /\ Len(call.messages) = 1
    /\ call.messages[1].content = <<TEXT(str_a), IMAGE(<<",", "Q">>, Some(path_png))>>
    /\ ret.contents[1] = <<TEXT(str_a), IMAGE(<<",", "Q">>, None)>>

---------------------------------------------------------------------------
(* Properties of the embedding dispatch and of the Gemini usage-only guard *)

\* the embedding worker of a Gemini call has ended on a decoded answer that
\* lacks the field its endpoint carries
UsageOnlyAnswered ==
    /\ call.op = "embed"
    /\ worker.st = "finished"
    /\ UsageOnly

\* C11: when a 2xx Gemini embedding response carries no embedding field
\* (single text) or no embeddings field (batch), gemini_embed_texts returns an
\* error, never a successful result with zero vectors.
C11_UsageOnlyIsError ==
    UsageOnlyAnswered =>
        LET res == gemini_embed_texts(call.input, resp)
        IN /\ ~res.ok
           /\ res # Ok(<<>>)
           /\ ~IsEmptyString(res.err)

C11_Witness ==
    /\ UsageOnlyAnswered
    /\ call.input = <<str_a, str_b>>
    /\ resp.data.embeddings = None
    /\ ~gemini_embed_texts(call.input, resp).ok

\* C12: for a client whose provider is Anthropic the embedding function
\* returns an empty list for every input, at once and with no network
\* request; for OpenAI and Gemini the function is that adapter's, whose
\* requests go to the adapter's own embedding endpoint.
C12_EmbeddingDispatch ==
    call.op = "embed" =>
        CASE call.client.provider = "Anthropic" ->
                /\ pc = "done"
                /\ net = <<>>
                /\ worker = NoWorker
                /\ ret = [op |-> "embed", values |-> <<>>]
          [] call.client.provider = "OpenAI" ->
                \A k \in 1..Len(net) : Method(net[k]) = "/embeddings"
          [] call.client.provider = "Gemini" ->
                /\ worker # NoWorker
                /\ \A k \in 1..Len(net) :
                      Method(net[k]) \in {":embedContent", ":batchEmbedContents"}

C12_Witness ==
    /\ EmbedDone
    /\ call.client.provider = "Anthropic"
    /\ call.input = <<str_a, str_b>>
    /\ net = <<>>
    /\ ret.values = <<>>

---------------------------------------------------------------------------
(* Properties of chat response normalization *)

\* a chat call of the provider has resolved on a decoded 2xx answer
ChatDecoded(provider) ==
    /\ ChatDone
    /\ call.client.provider = provider
    /\ resp.fault = "none"

\* the content the first candidate alone stands for: one Image part per
\* inline-data part, in order, then one Text part with the concatenated text
FirstCandidateContent ==
    LET parts == resp.data.candidates[1].content.parts
        inline == SelectSeq(parts, LAMBDA p : p.inline_data # None)
        texts == [i \in 1..Len(parts) |->
                    IF parts[i].text = None THEN <<>> ELSE parts[i].text[1]]
    IN [i \in 1..Len(inline) |-> IMAGE(inline[i].inline_data[1].data, None)]
       \o <<TEXT(Concat(texts))>>

\* C13: Gemini chat response normalization uses only the first candidate:
\* the content is one Image part for each inline-data part of the first
\* candidate, in order, followed by exactly one Text part holding the
\* concatenated text of that candidate's parts; later candidates contribute
\* nothing.
C13_GeminiFirstCandidateOnly ==
    (ChatDecoded("Gemini") /\ resp.data.candidates # <<>>) =>
        ret.msg.content = FirstCandidateContent

\* C14: a Gemini 2xx response with an empty candidates list is a hard
\* failure: the caller receives a System-role diagnostic message, never an
\* ordinary AI-role message.
C14_GeminiNoCandidateIsFailure ==
    (ChatDecoded("Gemini") /\ resp.data.candidates = <<>>) =>
        /\ ret.msg.role = "System"
        /\ ret.msg.role # "AI"

\* C15: OpenAI chat response normalization takes only the first choice: the
\* returned message is the one the response cut down to choices[0] gives,
\* whatever the later choices contain, and a response with an empty choices
\* list becomes a System-role message that reports it.
C15_OpenAIFirstChoiceOnly ==
    ChatDecoded("OpenAI") =>
        IF resp.data.choices = <<>>
        THEN /\ ret.msg.role = "System"
             /\ Len(ret.msg.content) = 1
             /\ Embeds(ret.msg.content[1].text, <<"No choices returned from OpenAI">>)
        ELSE LET first == [resp.data EXCEPT !.choices = <<resp.data.choices[1]>>]
                 alone == openai_chat(Decoded(first), 0, ret.msg.created_at)
             IN /\ ret.msg.role = alone.role
                /\ ret.msg.content = alone.content
                /\ resp.data.id # None => ret.msg.id = resp.data.id[1]

C15_Witness ==
    /\ ChatDecoded("OpenAI")
    /\ Len(resp.data.choices) = 2
    /\ resp.data.choices[1] = OpenAIChoice(Some(str_assistant), Some(ChatText(str_a)))
    /\ resp.data.choices[2] = OpenAIChoice(Some(str_user), Some(ChatParts(<<>>)))
    /\ ret.msg.role = "AI"
    /\ ret.msg.content = <<TEXT(str_a)>>

---------------------------------------------------------------------------
(* Properties of Gemini request construction *)

\* C16: Gemini request construction maps the message list one to one and in
\* order into the contents array: every message, System ones included, is one
\* {role, parts} entry, Human as user, AI as model and System as system, whose
\* parts mirror the message's content parts in order, Text as a text part and
\* Image as an inlineData part.
C16_GeminiContentsMirror ==
    Built("Gemini") =>
        LET wire == net[1].body.contents
        IN /\ Len(wire) = Len(call.messages)
           /\ \A i \in 1..Len(call.messages) :
                 LET m == call.messages[i]
                 IN /\ DOMAIN wire[i] = {"role", "parts"}
                    /\ wire[i].role = (CASE m.role = "Human" -> "user"
                                         [] m.role = "AI" -> "model"
                                         [] m.role = "System" -> "system")
                    /\ Len(wire[i].parts) = Len(m.content)
                    /\ \A j \in 1..Len(m.content) :
                          IF m.content[j].kind = "TEXT"
                          THEN wire[i].parts[j] = [text |-> m.content[j].text]
                          ELSE /\ DOMAIN wire[i].parts[j] = {"inlineData"}
                               /\ wire[i].parts[j].inlineData.data = m.content[j].data_b64

C16_Witness ==
    /\ Built("Gemini")
    /\ Len(call.messages) = 2
    /\ call.messages[1] = Message("System", <<TEXT(str_a)>>)
    /\ call.messages[2].role = "AI"
    /\ call.messages[2].content = <<TEXT(str_hi), IMAGE(<<"Q">>, None)>>
    /\ net[1].body.contents[1] = [role |-> "system", parts |-> <<[text |-> str_a]>>]
    /\ net[1].body.contents[2].role = "model"

---------------------------------------------------------------------------
(* Properties of the course of a call *)

\* C17: every invocation of a chat function, for any provider, issues exactly
\* one outbound HTTP request, the one built from its client and messages, and
\* then completes with a message; a failed request is not retried and no
\* second request is sent.
C17_ChatOneRequestThenCompletes ==
    /\ [](call.op = "chat" =>
            /\ net = <<chat_request(call.client, call.messages)>>
            /\ pc = "done" => ret.op = "chat")
    /\ [][call.op = "chat" => net' \in {net, <<>>}]_vars
    /\ (pc = "chat_wait") ~> ChatDone

C17_Witness ==
    /\ ChatDone
    /\ resp.fault = "status"
    /\ Len(net) = 1
    /\ ret.op = "chat"

\* an embedding call of the OpenAI or the Gemini function, under way or ended
BridgeCall ==
    /\ call.op = "embed"
    /\ call.client.provider \in {"OpenAI", "Gemini"}

\* the call has a worker of its own; it has not returned while the worker
\* runs, and once it has returned the worker has ended and the value is the
\* worker's result, or the empty list if the worker panicked
BridgedByWorker ==
    /\ worker # NoWorker
    /\ pc = "joining" => ret = NoRet
    /\ pc = "done" =>
          /\ worker.st \in {"finished", "panicked"}
          /\ ret.op = "embed"
          /\ ret.values = (IF worker.st = "finished" THEN worker.values ELSE <<>>)

\* C18 as stated: each invocation of the OpenAI or Gemini embedding function
\* spawns one worker, does not return before that worker has finished and
\* returns exactly the worker's result, an empty list if the worker panicked.
C18_Original ==
    BridgeCall => BridgedByWorker

\* C18, amended: each invocation of the Gemini embedding function, and each
\* invocation of the OpenAI one with a non-empty input, spawns one worker,
\* does not return before that worker has finished and returns exactly the
\* worker's result, an empty list if the worker panicked; the OpenAI function
\* with an empty input returns an empty list at once and spawns no worker.
C18_EmbeddingBridge ==
    BridgeCall =>
        IF call.client.provider = "OpenAI" /\ call.input = <<>>
        THEN /\ worker = NoWorker
             /\ pc = "done"
             /\ ret = [op |-> "embed", values |-> <<>>]
        ELSE BridgedByWorker

C18_Witness ==
    /\ BridgeCall
    /\ pc = "done"
    /\ worker.st = "panicked"
    /\ net # <<>>
    /\ ret.values = <<>>

\* C20: the OpenAI embedding function returns an empty result for an empty
\* input list without any network request; for a non-empty input it posts one
\* request and maps a successful response to the list of its data[].embedding
\* vectors in response order.
C20_OpenAIEmbedding ==
    (EmbedDone /\ call.client.provider = "OpenAI") =>
        IF call.input = <<>>
        THEN /\ net = <<>>
             /\ resp = NoResp
             /\ ret = [op |-> "embed", values |-> <<>>]
        ELSE /\ Len(net) <= 1
             /\ \A k \in 1..Len(net) :
                   /\ Method(net[k]) = "/embeddings"
                   /\ net[k].body.input = call.input
             /\ (worker.st = "finished" /\ resp.fault = "none") =>
                   /\ Len(ret.values) = Len(resp.data.data)
                   /\ \A i \in 1..Len(resp.data.data) :
                         ret.values[i] = resp.data.data[i].embedding

C20_Witness ==
    /\ EmbedDone
    /\ call.client.provider = "OpenAI"
    /\ call.input = <<str_b, str_a>>
    /\ resp.fault = "none"
    /\ resp.data.data = <<[embedding |-> EmbeddingOf(str_a)], [embedding |-> EmbeddingOf(str_b)]>>
    /\ ret.values = <<EmbeddingOf(str_a), EmbeddingOf(str_b)>>

---------------------------------------------------------------------------
(* Properties of concurrent calls *)

\* everything call site i holds
CallState(i) == <<pc[i], call[i], net[i], resp[i], worker[i], ret[i]>>

\* the request and the result of the call at site i are those its own
\* client, input and provider answer give (the message up to the two values
\* read from the clock), and nothing reaches it before its own answer
OwnRequestAndResult(i) ==
    CASE call[i].op = "none" ->
            CallState(i) = <<"idle", NoCall, <<>>, NoResp, NoWorker, NoRet>>
      [] call[i].op = "chat" ->
            /\ call[i].client = call[i].fn
            /\ net[i] = <<chat_request(call[i].client, call[i].messages)>>
            /\ worker[i] = NoWorker
            /\ pc[i] = "chat_wait" => (resp[i] = NoResp /\ ret[i] = NoRet)
            /\ pc[i] = "done" =>
                  \E t1 \in 0..MaxClock, t2 \in 0..MaxClock :
                      ret[i] = [op |-> "chat",
                                msg |-> get_llm_chat(call[i].client, resp[i], t1, t2)]
      [] call[i].op = "embed" ->
            /\ call[i].client = call[i].fn
            /\ worker[i].st \in {"none", "spawned"} => net[i] = <<>>
            /\ net[i] # <<>> => net[i] = <<embed_request(call[i].client, call[i].input)>>
            /\ worker[i].st \in {"none", "spawned", "awaiting"} => resp[i] = NoResp
            /\ pc[i] = "joining" => ret[i] = NoRet
            /\ pc[i] = "done" =>
                  ret[i] = [op |-> "embed",
                            values |-> IF worker[i].st = "finished" /\ resp[i] # NoResp
                                       THEN worker_values(call[i].client, call[i].input, resp[i])
                                       ELSE <<>>]

\* C19: concurrent chat and embedding calls share no mutable state: in any
\* interleaving of calls made through functions built from the same or
\* different clients, each call's request and result depend only on its own
\* client, input and provider answer; a step of one call leaves everything
\* the other calls hold unchanged; and no call changes a client, its own
\* included, from invocation to return.
C19_CallsShareNoState ==
    /\ [](\A i \in Calls : OwnRequestAndResult(i))
    /\ [][\E i \in Calls : \A j \in Calls \ {i} : CallState(j)' = CallState(j)]_vars
    /\ [][\A i \in Calls :
            (call[i].op # "none" /\ call'[i].op # "none") => call'[i] = call[i]]_vars

C19_Witness ==
    /\ pc[1] = "done" /\ call[1].op = "chat"
    /\ call[1].client.provider = "Anthropic"
    /\ ret[1].msg.content = <<TEXT(str_b)>>
    /\ pc[2] = "joining" /\ call[2].op = "embed"
    /\ call[2].client.provider = "Gemini"
    /\ worker[2] = Finished(<<EmbeddingOf(str_a)>>)

---------------------------------------------------------------------------
(* C21: the content list of a chat result *)

\* C21: every message a chat function returns, whether the provider
\* answered, failed or answered with nothing usable, has at least one
\* content part
C21_ChatContentNonEmpty ==
    ChatDone => Len(ret.msg.content) >= 1

\* an Anthropic answer whose parts all convert to nothing: the message
\* returned carries the one empty Text part put in their place
C21_Witness ==
    /\ ChatDone
    /\ call.client.provider = "Anthropic"
    /\ resp.fault = "none"
    /\ resp.data.content = <<AnthropicPart("text", None, None, None)>>
    /\ ret.msg.content = <<TEXT(<<>>)>>

---------------------------------------------------------------------------
(* C22: the model id of a Gemini embedding request *)

\* the model fields of the body of a Gemini embedding request
BodyModels(request) ==
    IF Method(request) = ":embedContent" THEN {request.body.model}
    ELSE {request.body.requests[i].model : i \in 1..Len(request.body.requests)}

\* C22: whether the configured model id carries the models/ prefix or not,
\* the model field of every body of a Gemini embedding request is that id
\* with exactly one models/ prefix; an id that carries the prefix is sent
\* as it is, and normalizing the sent id again changes nothing
C22_GeminiModelNormalizedOnce ==
    (call.op = "embed" /\ call.client.provider = "Gemini") =>
        \A k \in 1..Len(net) : \A m \in BodyModels(net[k]) :
            LET id == call.client.default_model
                rest == SubSeq(m, Len(str_models_prefix) + 1, Len(m))
            IN /\ m \in {id, str_models_prefix \o id}
               /\ starts_with(m, str_models_prefix)
               /\ ~starts_with(rest, str_models_prefix)
               /\ starts_with(id, str_models_prefix) => m = id
               /\ request_model(m) = m

\* a batch request of a client configured with the prefixed id: each
\* sub-request carries the id as configured
C22_Witness ==
    /\ call.op = "embed" /\ call.client.provider = "Gemini"
    /\ worker.st = "awaiting"
    /\ call.client.default_model = str_models_prefix \o <<"m">>
    /\ call.input = <<str_a, str_b>>
    /\ net[1].body.requests[2].model = call.client.default_model

---------------------------------------------------------------------------
(* C23: the content of a decoded Anthropic answer *)

\* the JSON text of a part as the provider sent it: its type and those of
\* the fields text, source and extra it carries
AnthropicRawJson(part) ==
    <<"{\"type\":\"", part.kind, "\"">>
    \o (IF part.text = None THEN <<>> ELSE <<",\"text\":\"">> \o part.text[1] \o <<"\"">>)
    \o (IF part.source = None THEN <<>>
        ELSE <<",\"source\":{">>
             \o (IF part.source[1].data = None THEN <<>>
                 ELSE <<"\"data\":\"">> \o part.source[1].data[1] \o <<"\"">>)
             \o <<"}">>)
    \o (IF part.extra = None THEN <<>> ELSE <<",\"extra\":">> \o part.extra[1])
    \o <<"}">>

\* the diagnostic text that names a tag
AnthropicDiagnostic(kind) == <<str_unsupported_anthropic, kind>>

\* C23 as stated: each part of the answer gives one part of the message, a
\* text part a Text part, an image part an Image part with source.data, a
\* part with another tag a Text part holding the part's raw JSON or the
\* diagnostic naming the tag; an empty result gives one empty Text part
C23_Original ==
    ChatDecoded("Anthropic") =>
        LET parts == resp.data.content
            content == ret.msg.content
        IN IF parts = <<>> THEN content = <<TEXT(<<>>)>>
           ELSE /\ Len(content) = Len(parts)
                /\ \A i \in 1..Len(parts) :
                      CASE parts[i].kind = "text" ->
                              /\ content[i].kind = "TEXT"
                              /\ parts[i].text # None => content[i] = TEXT(parts[i].text[1])
                        [] parts[i].kind = "image" ->
                              /\ content[i].kind = "IMAGE"
                              /\ parts[i].source # None /\ parts[i].source[1].data # None
                              /\ content[i] = IMAGE(parts[i].source[1].data[1], None)
                        [] OTHER ->
                              content[i] \in {TEXT(AnthropicRawJson(parts[i])),
                                              TEXT(AnthropicDiagnostic(parts[i].kind))}

\* what one part of the answer contributes to the message
AnthropicContribution(part) ==
    CASE part.kind = "text" /\ part.text # None -> <<TEXT(part.text[1])>>
      [] part.kind = "text" /\ part.text = None -> <<>>
      [] part.kind = "image" /\ part.source # None /\ part.source[1].data # None ->
            <<IMAGE(part.source[1].data[1], None)>>
      [] part.kind = "image" /\ (part.source = None \/ part.source[1].data = None) -> <<>>
      [] part.kind \notin {"text", "image"} /\ part.extra # None -> <<TEXT(part.extra[1])>>
      [] part.kind \notin {"text", "image"} /\ part.extra = None ->
            <<TEXT(AnthropicDiagnostic(part.kind))>>

\* C23: the content of the message is made of the contributions of the
\* answer's parts in order: a text part that has a text gives a Text part,
\* an image part that has source.data gives an Image part with that data,
\* a text or image part without them gives nothing, a part with another
\* tag gives a Text part holding the JSON text of its extra field when it
\* has one and else the diagnostic naming the tag; when nothing was
\* contributed the content is one empty Text part
C23_AnthropicPartsByTag ==
    ChatDecoded("Anthropic") =>
        LET parts == resp.data.content
            made == Concat([i \in 1..Len(parts) |-> AnthropicContribution(parts[i])])
        IN ret.msg.content = IF made = <<>> THEN <<TEXT(<<>>)>> ELSE made

\* an answer with a part of another tag that has an extra field, followed
\* by an image part: the message holds the extra field's JSON, then the
\* image
C23_Witness ==
    /\ ChatDecoded("Anthropic")
    /\ resp.data.content =
          << AnthropicPart("tool_use", None, None, Some(<<"{\"k\":1}">>)),
             AnthropicPart("image", None, Some([data |-> Some(<<"Q">>)]), None) >>
    /\ ret.msg.content = <<TEXT(<<"{\"k\":1}">>), IMAGE(<<"Q">>, None)>>

---------------------------------------------------------------------------
(* C24: the parts of an OpenAI answer that carry another tag *)

OpenAIKnownTags == {"text", "output_text", "output_image", "input_image"}

\* a decoded OpenAI answer whose first choice holds a list of parts
OpenAIPartsAnswered ==
    /\ ChatDecoded("OpenAI")
    /\ resp.data.choices # <<>>
    /\ resp.data.choices[1].message.content # None
    /\ resp.data.choices[1].message.content[1].c = "Parts"

OpenAIAnsweredParts == resp.data.choices[1].message.content[1].parts

\* the diagnostic text that names a tag
OpenAIDiagnostic(kind) == <<str_unsupported_openai, kind>>

\* C24 as stated: each part of the first choice whose tag is none of text,
\* output_text, output_image, input_image gives, at its place among the
\* parts of the message, exactly one Text part holding the diagnostic that
\* names the tag
C24_Original ==
    OpenAIPartsAnswered =>
        LET parts == OpenAIAnsweredParts
            made == Concat([i \in 1..Len(parts) |->
                        IF parts[i].kind \in OpenAIKnownTags
                        THEN convert_openai_part(parts[i])
                        ELSE <<TEXT(OpenAIDiagnostic(parts[i].kind))>>])
        IN ret.msg.content = IF made = <<>> THEN <<TEXT(<<>>)>> ELSE made

\* the text kept of a part with another tag
OpenAIFallbackText(part) ==
    IF part.text # None THEN part.text[1]
    ELSE IF part.image_base64 # None THEN part.image_base64[1]
    ELSE OpenAIDiagnostic(part.kind)

\* C24: each part of the first choice whose tag is none of text,
\* output_text, output_image, input_image gives, at its place among the
\* parts of the message, exactly one Text part: it holds the part's text
\* when the part has one, else its image_base64 when it has one, else the
\* diagnostic that names the tag
C24_OpenAIUnknownTagIsText ==
    OpenAIPartsAnswered =>
        LET parts == OpenAIAnsweredParts
            made == Concat([i \in 1..Len(parts) |->
                        IF parts[i].kind \in OpenAIKnownTags
                        THEN convert_openai_part(parts[i])
                        ELSE <<TEXT(OpenAIFallbackText(parts[i]))>>])
        IN ret.msg.content = IF made = <<>> THEN <<TEXT(<<>>)>> ELSE made

\* an answer whose first choice holds a refusal part with a text and an
\* audio part with base64 data: the message holds both as texts
C24_Witness ==
    /\ OpenAIPartsAnswered
    /\ OpenAIAnsweredParts =
          << OpenAIPart("refusal", Some(str_a), None, None),
             OpenAIPart("audio", None, None, Some(<<"Q">>)) >>
    /\ ret.msg.content = <<TEXT(str_a), TEXT(<<"Q">>)>>

---------------------------------------------------------------------------
(* C25: the id and the timestamp of LLMMessage::new *)

\* C25: LLMMessage::new keeps a supplied id; with no id supplied the id is
\* the decimal string of a reading of the epoch-millisecond clock, and
\* that reading is not greater than the message's created_at
C25_GeneratedIdNotAfterCreatedAt ==
    NewDone =>
        /\ call.id # None => ret.msg.id = call.id[1]
        /\ call.id = None =>
              \E t \in 0..MaxClock :
                  /\ ret.msg.id = ToDecimal(t)
                  /\ t <= ret.msg.created_at

---------------------------------------------------------------------------
(* C26: the system field of an Anthropic request *)

\* the conversation without its i-th message
WithoutMessage(messages, i) ==
    SubSeq(messages, 1, i - 1) \o SubSeq(messages, i + 1, Len(messages))

\* the conversation with the Image parts of its i-th message taken out
WithoutImages(messages, i) ==
    LET ts == TextsOf(messages[i].content)
    IN [messages EXCEPT ![i].content = [k \in 1..Len(ts) |-> TEXT(ts[k])]]

---------------------------------------------------------------------------
(* C27: the Gemini embedding function called with an empty input *)

EmptyEmbedCall(provider) ==
    /\ call.op = "embed"
    /\ call.client.provider = provider
    /\ call.input = <<>>

\* C27: a call of the Gemini embedding function with an empty input never
\* returns at once: it has a worker, which posts at most one request and
\* only to batchEmbedContents with zero sub-requests, the call returns only
\* after the worker has ended, and what it returns is the list of vectors
\* of the provider's answer, or the empty list when the worker had no
\* runtime or panicked, the request failed or the answer had no
\* embeddings; such a call of the OpenAI function returns the empty list
\* with no worker and no request
C27_GeminiEmptyInputNotShortCircuited ==
    /\ EmptyEmbedCall("Gemini") =>
          /\ worker # NoWorker
          /\ Len(net) <= 1
          /\ (worker.st = "awaiting" \/ resp # NoResp) => Len(net) = 1
          /\ \A k \in 1..Len(net) :
                /\ Method(net[k]) = ":batchEmbedContents"
                /\ net[k].body.requests = <<>>
          /\ pc = "done" =>
                /\ worker.st \in {"finished", "panicked"}
                /\ ret.values =
                      IF resp.fault = "none" /\ resp.data.embeddings # None
                      THEN [i \in 1..Len(resp.data.embeddings[1]) |->
                               resp.data.embeddings[1][i].values]
                      ELSE <<>>
    /\ EmptyEmbedCall("OpenAI") =>
          /\ pc = "done"
          /\ worker = NoWorker
          /\ net = <<>>
          /\ ret.values = <<>>

\* the provider answers the request without sub-requests with one vector,
\* and the call returns that vector
C27_Witness ==
    /\ EmptyEmbedCall("Gemini")
    /\ pc = "done"
    /\ Len(net) = 1
    /\ Method(net[1]) = ":batchEmbedContents"
    /\ net[1].body.requests = <<>>
    /\ resp.fault = "none"
    /\ resp.data.embeddings = Some(<<[values |-> EmbeddingOf(str_a)]>>)
    /\ ret.values = <<EmbeddingOf(str_a)>>

---------------------------------------------------------------------------
(* C28: the generation log *)

StoredLog == read_generation_log(disk.log, TRUE)

\* the last command was an append that wrote the log
LogWritten ==
    call.op = "append_generation_log" /\ ret.ok

\* C28: the stored log never holds more than MAX_LOG_ENTRIES entries, and
\* they are the entries appended last, in the order of their appends; an
\* append to a log read with MAX_LOG_ENTRIES entries leaves all of them but
\* the oldest, in their order, followed by the new entry, and an append to a
\* shorter log leaves all of them followed by the new entry
C28_LogKeepsNewestFifty ==
    /\ Len(StoredLog) <= MAX_LOG_ENTRIES
    /\ Len(StoredLog) <= Len(appended)
    /\ StoredLog = SubSeq(appended, Len(appended) - Len(StoredLog) + 1, Len(appended))
    /\ LogWritten =>
          StoredLog = IF Len(resp.data) = MAX_LOG_ENTRIES
                      THEN Append(Tail(resp.data), call.entry)
                      ELSE Append(resp.data, call.entry)

\* the 51st entry has been appended to a log of 50: the first is gone
C28_Witness ==
    /\ LogWritten
    /\ Len(appended) = MAX_LOG_ENTRIES + 1
    /\ Len(resp.data) = MAX_LOG_ENTRIES
    /\ StoredLog = Tail(appended)

---------------------------------------------------------------------------
(* C29, C30: the stored prompt templates *)

StoredTemplates == read_prompt_templates(disk.prompts)

TemplateIds(templates) == {templates[i].id : i \in 1..Len(templates)}

\* the last command was a save_prompts that returned a template
Saved == call.op = "save_prompts" /\ ret.ok

\* the template at position i of the list read took the payload's prompts
\* (and its name when renamed is TRUE), nothing else of the list changed,
\* and the command returned that template
UpdatedInPlace(i, renamed) ==
    LET before == resp.data
        p == call.payload
        updated == [before[i] EXCEPT
                        !.name = IF renamed THEN p.name ELSE @,
                        !.system_prompt = p.system_prompt,
                        !.user_prompt = p.user_prompt]
    IN /\ StoredTemplates = [before EXCEPT ![i] = updated]
       /\ ret.v = updated

\* the list read is followed by one new template made of the payload, which
\* the command returned
AddedAtEnd ==
    LET before == resp.data
        p == call.payload
        after == StoredTemplates
        new == after[Len(after)]
    IN /\ Len(after) = Len(before) + 1
       /\ SubSeq(after, 1, Len(before)) = before
       /\ new.name = p.name
       /\ new.system_prompt = p.system_prompt
       /\ new.user_prompt = p.user_prompt
       /\ ret.v = new

\* the id the new template would have had: the payload's, else the decimal
\* string of its creation time
IntendedId ==
    IF call.payload.id # None THEN call.payload.id[1]
    ELSE ToDecimal(ret.v.date_created)

\* C29: the stored templates always have pairwise distinct ids; a save
\* with an id that a stored template has updates that template in place; a
\* save without id under the name of a stored template updates such a
\* template in place; every other save adds one template at the end, with
\* the id intended for it when no stored template has that id and else
\* with an id that no stored template has
C29_TemplateIdsDistinct ==
    /\ \A i, j \in 1..Len(StoredTemplates) :
          i # j => StoredTemplates[i].id # StoredTemplates[j].id
    /\ Saved =>
          LET before == resp.data
              p == call.payload
              with_id == IF p.id = None THEN {}
                         ELSE {i \in 1..Len(before) : before[i].id = p.id[1]}
              with_name == IF p.id # None THEN {}
                           ELSE {i \in 1..Len(before) : before[i].name = p.name}
          IN IF with_id # {} THEN \E i \in with_id : UpdatedInPlace(i, TRUE)
             ELSE IF with_name # {} THEN \E i \in with_name : UpdatedInPlace(i, FALSE)
             ELSE /\ AddedAtEnd
                  /\ ret.v.id \notin TemplateIds(before)
                  /\ IntendedId \notin TemplateIds(before) => ret.v.id = IntendedId

\* a save without id whose clock-made id was that of a stored template:
\* the new template has another, unused id
C29_Witness ==
    /\ Saved
    /\ call.payload.id = None
    /\ Len(StoredTemplates) = Len(resp.data) + 1
    /\ IntendedId \in TemplateIds(resp.data)
    /\ ret.v.id # IntendedId
    /\ ret.v.id \notin TemplateIds(resp.data)

\* the last command was a remove_prompts_by_id whose read and write of the
\* file met no fault
Removal == call.op = "remove_prompts_by_id" /\ resp.fault = "none"

\* C30: remove_prompts_by_id with an id that no stored template has
\* returns the not-found error and leaves the stored list as it was; with
\* an id that a stored template has it succeeds and the stored list is the
\* list read without the templates of that id, the others in their order
C30_RemoveById ==
    Removal =>
        LET before == resp.data
            others == {i \in 1..Len(before) : before[i].id # call.id}
        IN IF call.id \notin TemplateIds(before)
           THEN /\ ret = Err(<<"Prompt template with id '", call.id, "' not found.">>)
                /\ StoredTemplates = before
           ELSE /\ ret.ok
                /\ StoredTemplates = KeptAt(before, others)

\* the not-found error on a store of two templates, which stay
C30_Witness ==
    /\ Removal
    /\ Len(resp.data) = 2
    /\ call.id \notin TemplateIds(resp.data)
    /\ ~ret.ok
    /\ StoredTemplates = resp.data

====
